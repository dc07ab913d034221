------------------------------- MODULE MCShop -------------------------------
(* Shop with two users, two products and one or two workers, for TLC.      *)
EXTENDS Shop, TLC

CONSTANTS e1, e2, p1, p2, t1, t2, spaced, plus, escaped

MCEmails == {e1, e2}
MCTokens == {t1, t2}
MCNames  == {spaced, plus, escaped}

(* "plus" is the name "spaced" with + for its space; normalisation does not *)
(* know the escape %20, so "escaped" is a name of its own.                  *)
MCNormal == [n \in MCNames |-> IF n = plus THEN spaced ELSE n]

With(o) == [Idle EXCEPT !.op = o]
Cart(o, t, n) == [With(o) EXCEPT !.session = t, !.nome = n]
Admin(o, n, s, price) == [With(o) EXCEPT !.nome = n, !.senha = s, !.preco = price]

(* The requests whose effects can meet.                                    *)
MCRequests ==
  {[With("register") EXCEPT !.email = e, !.password = p1, !.nome = spaced] : e \in MCEmails}
  \cup {[With("login") EXCEPT !.email = e, !.password = p1] : e \in MCEmails}
  \cup {Cart("carrinho/add", t, n) : t \in MCTokens, n \in {plus, escaped}}
  \cup {Cart("carrinho/del", t, spaced) : t \in MCTokens}
  \cup {Cart("carrinho/lista", t, Absent) : t \in MCTokens}
  \cup {Admin("produtos/add", plus, Senha, 50), Admin("produtos/del", spaced, Senha, 0)}

(* All of them, the ones that are refused included.                        *)
MCAllRequests ==
  MCRequests
  \cup {With(o) : o \in Ops}
  \cup {[With("login") EXCEPT !.email = e1, !.password = p2],
        [With("register") EXCEPT !.email = e1, !.password = p2],
        Admin("produtos/add", escaped, Senha, 50), Admin("produtos/add", plus, Absent, 50),
        Admin("produtos/add", plus, Senha, 0),
        Admin("produtos/del", spaced, Absent, 0), Cart("carrinho/add", Absent, spaced)}

MCSymmetry == Permutations(Workers) \cup Permutations(MCEmails) \cup Permutations(MCTokens)
=============================================================================
