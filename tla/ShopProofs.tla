------------------------------ MODULE ShopProofs ------------------------------
(***************************************************************************)
(* What the handlers of Shop promise, for any workers, users, names and    *)
(* requests.  The invariants rest on what a handler has established by     *)
(* the time it reaches the database (InProgress).                          *)
(***************************************************************************)
EXTENDS Shop, TLAPS

(* A request that passed the checks of its handler.                        *)
Admitted(r) == /\ r \in Requests /\ ~Lacks(r) /\ ~Unknown(r)
               /\ r.op = "produtos/add" => r.preco # 0

(* A request that reached the database was admitted, with the user its     *)
(* session names if it is about a cart; a login that goes on to make a     *)
(* token found its e-mail and password.                                    *)
InProgress ==
  \A w \in Workers :
    /\ pc[w] \in {"connect", "exec"} =>
         Admitted(req[w]) /\ (req[w].op \in CartOps => user[w] # Absent)
    /\ user[w] # Absent => pc[w] # "idle" /\ req[w].session \in Tokens
    /\ pc[w] = "grant" => <<req[w].email, req[w].password>> \in usuarios

IInv == TypeOK /\ InProgress

(* The parameters of an admitted request are there, and of their kinds.    *)
LEMMA Given ==
  ASSUME NEW r, Admitted(r)
  PROVE  /\ r.op = "register" => r.email \in Emails /\ r.password \in Passwords
         /\ r.op = "login" => r.email \in Emails /\ r.password \in Passwords
         /\ r.op \in AdminOps \cup {"carrinho/add", "carrinho/del"} =>
              r.nome \in Names /\ Normal[r.nome] \in Stored
         /\ r.op = "produtos/add" => r.imagem \in Int /\ r.preco \in Int \ {0}
<1>1. r \in Request
  BY ShopAssumption DEF Admitted
<1>2. ASSUME NEW f \in Required[r.op] PROVE r[f] # Absent
  BY <1>2 DEF Admitted, Lacks
<1>3. r.op \in {"register", "login"} => r.email # Absent /\ r.password # Absent
  <2>1. r.op \in {"register", "login"} =>
          "email" \in Required[r.op] /\ "password" \in Required[r.op]
    BY <1>1 DEF Required, Ops
  <2>2. QED
    BY <2>1, <1>2
<1>4. r.op \in AdminOps \cup {"carrinho/add", "carrinho/del"} => r.nome # Absent
  <2>1. r.op \in AdminOps \cup {"carrinho/add", "carrinho/del"} => "nome" \in Required[r.op]
    BY <1>1 DEF Required, Ops, AdminOps
  <2>2. QED
    BY <2>1, <1>2
<1>5. QED
  BY <1>1, <1>3, <1>4 DEF Request, Admitted, Stored

(* Every statement keeps its table well typed.                             *)
LEMMA CommitTyped ==
  ASSUME TypeOK, NEW r, Admitted(r), NEW u, r.op \in CartOps => u \in Emails, Commit(r, u)
  PROVE  /\ usuarios' \subseteq Emails \X Passwords
         /\ produtos' \subseteq [nome : Stored, imagem : Int, preco : Int \ {0}]
         /\ carrinho' \in [Emails \X Stored -> 0 .. MaxRows]
         /\ stray' \subseteq Stored /\ usuarios \subseteq usuarios'
<1>1. CASE InsertUser(r)
  BY <1>1, Given DEF InsertUser, TypeOK
<1>2. CASE InsertProduct(r)
  BY <1>2, Given DEF InsertProduct, TypeOK, AdminOps
<1>3. CASE InsertCart(r, u)
  <2>1. r.nome \in Names /\ Normal[r.nome] \in Stored /\ u \in Emails
    BY <1>3, Given DEF InsertCart, CartOps
  <2>2. <<u, Normal[r.nome]>> \in Emails \X Stored
    BY <2>1
  <2>3. carrinho' \in [Emails \X Stored -> 0 .. MaxRows]
    BY <1>3, <2>1, <2>2, ShopAssumption DEF InsertCart, TypeOK
  <2>4. QED
    BY <1>3, <2>1, <2>3 DEF InsertCart, TypeOK
<1>4. CASE DeleteCart(r, u)
  <2>1. carrinho' \in [Emails \X Stored -> 0 .. MaxRows]
    <3>1. 0 \in 0 .. MaxRows
      BY ShopAssumption
    <3>2. QED
      BY <1>4, <3>1 DEF DeleteCart, TypeOK
  <2>2. QED
    BY <1>4, <2>1 DEF DeleteCart, TypeOK
<1>5. QED
  BY <1>1, <1>2, <1>3, <1>4 DEF Commit

(* An answer is one of those the handlers give.                            *)
LEMMA AnswerTyped ==
  ASSUME TypeOK, NEW w \in Workers, NEW s \in {200, 204, 400, 403, 404, 500},
         NEW b \in {"empty", "text", "token", "list"}, Answer(w, s, b)
  PROVE  /\ reply' \in [Workers -> [status : {0, 200, 204, 400, 403, 404, 500},
                                    body : {"empty", "text", "token", "list"}]]
         /\ pc' \in [Workers -> {"idle", "connect", "exec", "grant", "row", "reply"}]
         /\ pc'[w] = "reply" /\ \A v \in Workers \ {w} : pc'[v] = pc[v]
BY DEF Answer, TypeOK

(* What the handler knows of the database is a yes or a no.                *)
LEMMA TroubleTyped ==
  ASSUME TypeOK, NEW w \in Workers,
         trouble' = trouble \/ trouble' = [trouble EXCEPT ![w] = TRUE]
  PROVE  trouble' \in [Workers -> BOOLEAN]
<1>1. trouble \in [Workers -> BOOLEAN]
  BY DEF TypeOK
<1>2. CASE trouble' = trouble
  BY <1>1, <1>2
<1>3. CASE trouble' = [trouble EXCEPT ![w] = TRUE]
  BY <1>1, <1>3
<1>4. QED
  BY <1>2, <1>3

(* The initial state, and the one a new process starts in.                 *)
LEMMA Starting == Init => IInv
<1> SUFFICES ASSUME Init PROVE IInv
  OBVIOUS
<1>1. carrinho \in [Emails \X Stored -> 0 .. MaxRows]
  BY ShopAssumption DEF Init
<1>2. reply \in [Workers -> [status : {0, 200, 204, 400, 403, 404, 500},
                           body : {"empty", "text", "token", "list"}]]
  BY DEF Init, Each, NoReply
<1>3. req \in [Workers -> Requests \cup {Idle}] /\ user \in [Workers -> Emails \cup {Absent}]
  BY DEF Init, Each
<1>4. rows \in [Workers -> SUBSET (Stored \cup [nome : Stored, preco : Int])]
  BY DEF Init, Each
<1>5. TypeOK
  BY <1>1, <1>2, <1>3, <1>4, ZenonT(60) DEF Init, Each, TypeOK
<1>6. InProgress
  BY DEF Init, Each, InProgress
<1>7. QED
  BY <1>5, <1>6 DEF IInv

(* Every variable keeps its kind, and what the handlers establish before   *)
(* the database holds until they leave it.                                 *)
LEMMA Staying == IInv /\ [Next]_vars => IInv'
<1> SUFFICES ASSUME IInv, [Next]_vars PROVE IInv'
  OBVIOUS
<1> USE DEF IInv, Take, Down, tables, memory, process
<1>1. ASSUME NEW w \in Workers, NEW r \in Requests, Refuse(w, r) PROVE IInv'
  <2>1. PICK s \in {400, 403, 404}, b \in {"empty", "text"} : Answer(w, s, b)
    BY <1>1 DEF Refuse
  <2>2. TypeOK'
    BY <1>1, <2>1, AnswerTyped DEF Refuse, TypeOK
  <2>3. InProgress'
    <3>1. user[w] = Absent
      BY <1>1 DEF Refuse, InProgress
    <3>2. pc'[w] = "reply" /\ \A v \in Workers \ {w} : pc'[v] = pc[v]
      BY <2>1, AnswerTyped
    <3>3. \A v \in Workers \ {w} : req'[v] = req[v]
      BY <1>1 DEF Refuse, TypeOK
    <3>4. QED
      BY <1>1, <3>1, <3>2, <3>3 DEF Refuse, InProgress
  <2>4. QED
    BY <2>2, <2>3
<1>2. ASSUME NEW w \in Workers, NEW r \in Requests, Admit(w, r) PROVE IInv'
  <2>1. r \in Request /\ Admitted(r)
    BY <1>2, ShopAssumption DEF Admit, Admitted
  <2>2. r.op \in CartOps => r.session \in Tokens /\ sessions[r.session] \in Emails
    BY <1>2, <2>1 DEF Admit, NullSession, Forbidden, Request, TypeOK
  <2>3. TypeOK'
    BY <1>2, <2>2 DEF Admit, TypeOK
  <2>4. InProgress'
    BY <1>2, <2>1, <2>2, ShopAssumption DEF Admit, TypeOK, InProgress
  <2>5. QED
    BY <2>3, <2>4
<1>3. ASSUME NEW w \in Workers, NEW r \in Requests, ReadNullSession(w, r) PROVE IInv'
  BY <1>3, ZenonT(60) DEF ReadNullSession, TypeOK, InProgress
<1>4. ASSUME NEW w \in Workers, Connect(w) PROVE IInv'
  <2>1. TypeOK'
    <3>1. trouble' \in [Workers -> BOOLEAN]
      BY <1>4, TroubleTyped DEF Connect
    <3>2. QED
      BY <1>4, <3>1, AnswerTyped DEF Connect, TypeOK
  <2>2. InProgress'
    BY <1>4, AnswerTyped DEF Connect, TypeOK, InProgress
  <2>3. QED
    BY <2>1, <2>2
<1>5. ASSUME NEW w \in Workers, Execute(w) PROVE IInv'
  <2>1. Admitted(req[w]) /\ (req[w].op \in CartOps => user[w] \in Emails)
    BY <1>5, ZenonT(60) DEF Execute, InProgress, TypeOK
  <2>2. /\ usuarios' \subseteq Emails \X Passwords
        /\ produtos' \subseteq [nome : Stored, imagem : Int, preco : Int \ {0}]
        /\ carrinho' \in [Emails \X Stored -> 0 .. MaxRows]
        /\ stray' \subseteq Stored /\ usuarios \subseteq usuarios'
    BY <1>5, <2>1, CommitTyped DEF Execute
  <2>3. PICK s \in {204, 400} : Answer(w, s, "empty")
    BY <1>5 DEF Execute
  <2>4. TypeOK'
    <3>1. done' \in [Workers -> BOOLEAN]
      BY <1>5 DEF Execute, TypeOK
    <3>2. trouble' \in [Workers -> BOOLEAN]
      BY <1>5, TroubleTyped DEF Execute
    <3>3. QED
      BY <1>5, <2>2, <2>3, <3>1, <3>2, AnswerTyped DEF Execute, TypeOK
  <2>5. InProgress'
    BY <1>5, <2>2, <2>3, AnswerTyped DEF Execute, TypeOK, InProgress
  <2>6. QED
    BY <2>4, <2>5
<1>6. ASSUME NEW w \in Workers, ExecuteFails(w) PROVE IInv'
  <2>1. TypeOK'
    BY <1>6, AnswerTyped DEF ExecuteFails, TypeOK
  <2>2. InProgress'
    BY <1>6, AnswerTyped DEF ExecuteFails, TypeOK, InProgress
  <2>3. QED
    BY <2>1, <2>2
<1>7. ASSUME NEW w \in Workers, SelectProducts(w) PROVE IInv'
  <2>1. {[nome |-> p.nome, preco |-> ListedPrice(p)] : p \in produtos}
          \subseteq Stored \cup [nome : Stored, preco : Int]
    BY DEF ListedPrice, TypeOK
  <2>2. TypeOK'
    BY <1>7, <2>1, AnswerTyped DEF SelectProducts, TypeOK
  <2>3. InProgress'
    BY <1>7, AnswerTyped DEF SelectProducts, TypeOK, InProgress
  <2>4. QED
    BY <2>2, <2>3
<1>8. ASSUME NEW w \in Workers, SelectUser(w) PROVE IInv'
  <2>1. CASE <<req[w].email, req[w].password>> \in usuarios
    <3>1. /\ pc' = [pc EXCEPT ![w] = "grant"] /\ pc[w] = "exec"
          /\ UNCHANGED <<tables, memory, req, user, rows, reply, done, trouble, process>>
      BY <1>8, <2>1 DEF SelectUser
    <3>2. pc' \in [Workers -> {"idle", "connect", "exec", "grant", "row", "reply"}]
      BY <3>1 DEF TypeOK
    <3>3. TypeOK'
      BY <3>1, <3>2 DEF TypeOK
    <3>4. pc'[w] = "grant" /\ \A v \in Workers \ {w} : pc'[v] = pc[v]
      BY <3>1 DEF TypeOK
    <3>5. InProgress'
      BY <2>1, <3>1, <3>4 DEF InProgress
    <3>6. QED
      BY <3>3, <3>5
  <2>2. CASE Answer(w, 403, "empty")
    <3>1. TypeOK'
      BY <1>8, <2>2, AnswerTyped DEF SelectUser, TypeOK
    <3>2. InProgress'
      BY <1>8, <2>2, AnswerTyped DEF SelectUser, TypeOK, InProgress
    <3>3. QED
      BY <3>1, <3>2
  <2>3. QED
    BY <1>8, <2>1, <2>2 DEF SelectUser
<1>9. ASSUME NEW w \in Workers, Grant(w) PROVE IInv'
  <2>1. req[w].email \in Emails
    <3>1. <<req[w].email, req[w].password>> \in Emails \X Passwords
      BY <1>9 DEF Grant, TypeOK, InProgress
    <3>2. QED
      BY <3>1
  <2>2. PICK t \in Tokens :
          /\ \E met \in {req[w].email} \cup ({sessions[t]} \ {Absent}) :
               sessions' = [sessions EXCEPT ![t] = met]
          /\ granted' = [granted EXCEPT ![t] = @ \cup {req[w].email}]
    BY <1>9 DEF Grant
  <2>3. TypeOK'
    <3>1. sessions' \in [Tokens -> Emails \cup {Absent}] /\ granted' \in [Tokens -> SUBSET Emails]
      BY <2>1, <2>2 DEF TypeOK
    <3>2. QED
      BY <1>9, <3>1, AnswerTyped DEF Grant, TypeOK
  <2>4. InProgress'
    BY <1>9, AnswerTyped DEF Grant, TypeOK, InProgress
  <2>5. QED
    BY <2>3, <2>4
<1>10. ASSUME NEW w \in Workers, SelectCart(w) PROVE IInv'
  <2>1. TypeOK'
    BY <1>10 DEF SelectCart, TypeOK
  <2>2. InProgress'
    BY <1>10 DEF SelectCart, TypeOK, InProgress
  <2>3. QED
    BY <2>1, <2>2
<1>11. ASSUME NEW w \in Workers, LookUpProduct(w) PROVE IInv'
  <2>1. PICK p \in rows[w] : \/ rows' = [rows EXCEPT ![w] = @ \ {p}] /\ UNCHANGED <<trouble, process>>
                             \/ Down("produto") /\ UNCHANGED <<rows, trouble>>
                             \/ /\ trouble' = [trouble EXCEPT ![w] = TRUE]
                                /\ Down("produto") /\ UNCHANGED rows
    BY <1>11 DEF LookUpProduct
  <2>2. rows' \in [Workers -> SUBSET (Stored \cup [nome : Stored, preco : Int])]
    BY <2>1 DEF TypeOK
  <2>3. trouble' \in [Workers -> BOOLEAN]
    BY <2>1, TroubleTyped
  <2>4. up' \in BOOLEAN /\ fault' \in {"none", "session", "produto", "killed"}
    BY <2>1 DEF TypeOK
  <2>5. TypeOK'
    BY <1>11, <2>2, <2>3, <2>4 DEF LookUpProduct, TypeOK
  <2>6. InProgress'
    BY <1>11 DEF LookUpProduct, TypeOK, InProgress
  <2>7. QED
    BY <2>5, <2>6
<1>12. ASSUME NEW w \in Workers, CartListed(w) PROVE IInv'
  BY <1>12, AnswerTyped DEF CartListed, TypeOK, InProgress
<1>13. ASSUME NEW w \in Workers, Reply(w) PROVE IInv'
  <2>1. TypeOK'
    BY <1>13 DEF Reply, TypeOK, NoReply
  <2>2. InProgress'
    BY <1>13 DEF Reply, TypeOK, InProgress
  <2>3. QED
    BY <2>1, <2>2
<1>14. CASE Kill
  BY <1>14 DEF Kill, TypeOK, InProgress
<1>15. CASE Start
  <2>1. TypeOK'
    BY <1>15 DEF Start, Each, NoReply, TypeOK
  <2>2. InProgress'
    BY <1>15 DEF Start, Each, InProgress
  <2>3. QED
    BY <2>1, <2>2
<1>16. CASE UNCHANGED vars
  BY <1>16 DEF vars, TypeOK, InProgress
<1>17. QED
  BY <1>1, <1>2, <1>3, <1>4, <1>5, <1>6, <1>7, <1>8, <1>9, <1>10, <1>11, <1>12, <1>13,
     <1>14, <1>15, <1>16 DEF Next, Step

(* Every variable holds a value of its kind in every state: the statements *)
(* are given the parameters they need, whatever is sent.                   *)
THEOREM Typing == Spec => []TypeOK
<1>1. IInv => TypeOK
  BY DEF IInv
<1>2. QED
  BY Starting, Staying, <1>1, PTL DEF Spec

-----------------------------------------------------------------------------
(* Whose the carts, the tokens and the requests are: in the session table, *)
(* every token has an e-mail it was made for.                              *)
TableTold == \A t \in Tokens : sessions[t] # Absent => sessions[t] \in granted[t]

Owned == CartsOfUsers /\ TableTold /\ TokenNamesItsUser

(* A step that leaves carts and tokens alone, deletes no user, and gives   *)
(* no worker another user leaves everything with its owner.                *)
LEMMA OwnedStays ==
  ASSUME Owned, usuarios \subseteq usuarios', UNCHANGED <<carrinho, sessions, granted>>, up' => up,
         \A w \in Workers : \/ user'[w] = Absent
                            \/ user'[w] = user[w] /\ req'[w].session = req[w].session
  PROVE  Owned'
<1>1. CartsOfUsers'
  BY DEF Owned, CartsOfUsers, Registered
<1>2. TableTold' /\ TokenNamesItsUser'
  BY DEF Owned, TableTold, TokenNamesItsUser
<1>3. QED
  BY <1>1, <1>2 DEF Owned

LEMMA Owning == IInv /\ Owned /\ [Next]_vars => Owned'
<1> SUFFICES ASSUME IInv, Owned, [Next]_vars PROVE Owned'
  OBVIOUS
<1> USE DEF Take, Down, tables, memory, process
<1>1. TypeOK /\ InProgress
  BY DEF IInv
<1>2. ASSUME NEW w \in Workers, NEW r \in Requests, Refuse(w, r) PROVE Owned'
  <2>1. user[w] = Absent
    BY <1>1, <1>2 DEF Refuse, InProgress
  <2>2. QED
    BY <1>1, <1>2, <2>1, OwnedStays DEF Refuse, TypeOK
<1>3. ASSUME NEW w \in Workers, NEW r \in Requests, Admit(w, r) PROVE Owned'
  <2>1. user'[w] # Absent => /\ req'[w] = r /\ r.session \in Tokens
                             /\ user'[w] = sessions[r.session]
    BY <1>1, <1>3, ShopAssumption DEF Admit, NullSession, Request, TypeOK
  <2>2. \A v \in Workers \ {w} : user'[v] = user[v] /\ req'[v] = req[v]
    BY <1>1, <1>3 DEF Admit, TypeOK
  <2>3. user'[w] # Absent => user'[w] \in granted[r.session] /\ Registered(user'[w])
    BY <2>1 DEF Owned, CartsOfUsers, TableTold
  <2>4. UNCHANGED <<usuarios, carrinho, sessions, granted, up>>
    BY <1>3 DEF Admit
  <2>5. CartsOfUsers'
    BY <2>2, <2>3, <2>4 DEF Owned, CartsOfUsers, Registered
  <2>6. TableTold' /\ TokenNamesItsUser'
    BY <2>1, <2>2, <2>3, <2>4 DEF Owned, TableTold, TokenNamesItsUser
  <2>7. QED
    BY <2>5, <2>6 DEF Owned
<1>4. ASSUME NEW w \in Workers, NEW r \in Requests, ReadNullSession(w, r) PROVE Owned'
  BY <1>4, OwnedStays DEF ReadNullSession
<1>5. ASSUME NEW w \in Workers, Connect(w) PROVE Owned'
  BY <1>5, OwnedStays DEF Connect
<1>6. ASSUME NEW w \in Workers, Execute(w) PROVE Owned'
  <2>1. Admitted(req[w]) /\ (req[w].op \in CartOps => user[w] \in Emails /\ Registered(user[w]))
    BY <1>1, <1>6, ZenonT(60) DEF Execute, InProgress, TypeOK, Owned, CartsOfUsers
  <2>2. UNCHANGED <<sessions, granted, user, req, up>> /\ Commit(req[w], user[w])
    BY <1>6 DEF Execute
  <2>3. usuarios \subseteq usuarios' /\ carrinho' \in [Emails \X Stored -> 0 .. MaxRows]
    BY <1>1, <2>1, <2>2, CommitTyped
  <2>4. ASSUME NEW u \in Emails, NEW p \in Stored, carrinho'[<<u, p>>] > 0 PROVE Registered(u)
    <3>1. CASE carrinho' = carrinho
      BY <2>4, <3>1 DEF Owned, CartsOfUsers
    <3>2. CASE InsertCart(req[w], user[w])
      <4>1. u # user[w] => carrinho'[<<u, p>>] = carrinho[<<u, p>>]
        BY <1>1, <3>2 DEF InsertCart, TypeOK
      <4>2. QED
        BY <2>1, <2>4, <3>2, <4>1 DEF Owned, CartsOfUsers, InsertCart, CartOps
    <3>3. CASE DeleteCart(req[w], user[w])
      <4>1. u # user[w] => carrinho'[<<u, p>>] = carrinho[<<u, p>>]
        BY <1>1, <3>3 DEF DeleteCart, TypeOK
      <4>2. QED
        BY <2>1, <2>4, <3>3, <4>1 DEF Owned, CartsOfUsers, DeleteCart, CartOps
    <3>4. QED
      BY <2>2, <3>1, <3>2, <3>3 DEF Commit, InsertUser, InsertProduct
  <2>5. CartsOfUsers'
    BY <2>2, <2>3, <2>4 DEF Owned, CartsOfUsers, Registered
  <2>6. TableTold' /\ TokenNamesItsUser'
    BY <2>2 DEF Owned, TableTold, TokenNamesItsUser
  <2>7. QED
    BY <2>5, <2>6 DEF Owned
<1>7. ASSUME NEW w \in Workers, ExecuteFails(w) PROVE Owned'
  BY <1>7, OwnedStays DEF ExecuteFails
<1>8. ASSUME NEW w \in Workers, SelectProducts(w) PROVE Owned'
  BY <1>8, OwnedStays DEF SelectProducts
<1>9. ASSUME NEW w \in Workers, SelectUser(w) PROVE Owned'
  BY <1>9, OwnedStays DEF SelectUser
<1>10. ASSUME NEW w \in Workers, Grant(w) PROVE Owned'
  <2>1. PICK t \in Tokens :
          /\ \E met \in {req[w].email} \cup ({sessions[t]} \ {Absent}) :
               sessions' = [sessions EXCEPT ![t] = met]
          /\ granted' = [granted EXCEPT ![t] = @ \cup {req[w].email}]
    BY <1>10 DEF Grant
  <2>2. UNCHANGED <<usuarios, carrinho, user, req, up>>
    BY <1>10 DEF Grant
  <2>3. granted'[t] = granted[t] \cup {req[w].email} /\ sessions'[t] \in granted'[t]
    BY <1>1, <2>1 DEF TypeOK, Owned, TableTold
  <2>4. \A x \in Tokens \ {t} : sessions'[x] = sessions[x] /\ granted'[x] = granted[x]
    BY <1>1, <2>1 DEF TypeOK
  <2>5. Registered(req[w].email)
    <3>1. <<req[w].email, req[w].password>> \in usuarios
      BY <1>1, <1>10 DEF Grant, InProgress
    <3>2. <<req[w].email, req[w].password>> \in Emails \X Passwords
      BY <1>1, <3>1 DEF TypeOK
    <3>3. req[w].password \in Passwords
      BY <3>2
    <3>4. QED
      BY <3>1, <3>3 DEF Registered
  <2>6. \A v \in Workers : user[v] # Absent => req[v].session \in Tokens
    BY <1>1 DEF InProgress
  <2>7. CartsOfUsers'
    BY <2>2, <2>3, <2>4, <2>5 DEF Owned, CartsOfUsers, Registered
  <2>8. TableTold' /\ TokenNamesItsUser'
    BY <2>2, <2>3, <2>4, <2>6 DEF Owned, TableTold, TokenNamesItsUser
  <2>9. QED
    BY <2>7, <2>8 DEF Owned
<1>11. ASSUME NEW w \in Workers, SelectCart(w) PROVE Owned'
  BY <1>11, OwnedStays DEF SelectCart
<1>12. ASSUME NEW w \in Workers, LookUpProduct(w) PROVE Owned'
  BY <1>12, OwnedStays DEF LookUpProduct
<1>13. ASSUME NEW w \in Workers, CartListed(w) PROVE Owned'
  BY <1>13, OwnedStays DEF CartListed
<1>14. ASSUME NEW w \in Workers, Reply(w) PROVE Owned'
  BY <1>1, <1>14, OwnedStays DEF Reply, TypeOK
<1>15. CASE Kill
  BY <1>15, OwnedStays DEF Kill
<1>16. CASE Start
  <2>1. /\ UNCHANGED <<usuarios, carrinho, granted>>
        /\ \A w \in Workers : user'[w] = Absent
        /\ \A t \in Tokens : sessions'[t] = Absent
    BY <1>16 DEF Start, Each
  <2>2. CartsOfUsers'
    BY <2>1 DEF Owned, CartsOfUsers, Registered
  <2>3. TableTold' /\ TokenNamesItsUser'
    BY <2>1 DEF Owned, TableTold, TokenNamesItsUser
  <2>4. QED
    BY <2>2, <2>3 DEF Owned
<1>17. CASE UNCHANGED vars
  BY <1>17, OwnedStays DEF vars
<1>18. QED
  BY <1>2, <1>3, <1>4, <1>5, <1>6, <1>7, <1>8, <1>9, <1>10, <1>11, <1>12, <1>13, <1>14,
     <1>15, <1>16, <1>17 DEF Next, Step

LEMMA OwnedAtFirst == Init => Owned
<1> SUFFICES ASSUME Init PROVE Owned
  OBVIOUS
<1>1. CartsOfUsers
  <2>1. \A u \in Emails, p \in Stored : ~(carrinho[<<u, p>>] > 0)
    <3>1. \A u \in Emails, p \in Stored : carrinho[<<u, p>>] = 0
      BY DEF Init
    <3>2. ~(0 > 0)
      OBVIOUS
    <3>3. QED
      BY <3>1, <3>2
  <2>2. \A t \in Tokens : granted[t] = {}
    BY DEF Init
  <2>3. \A w \in Workers : user[w] = Absent
    BY DEF Init, Each
  <2>4. QED
    BY <2>1, <2>2, <2>3 DEF CartsOfUsers
<1>2. TableTold /\ TokenNamesItsUser
  BY DEF Init, Each, TableTold, TokenNamesItsUser
<1>3. QED
  BY <1>1, <1>2 DEF Owned

(* No cart, token or request in progress ever belongs to an e-mail that    *)
(* was not registered, across crashes and restarts.                        *)
THEOREM Carts == Spec => []CartsOfUsers
<1>1. Owned => CartsOfUsers
  BY DEF Owned
<1>2. QED
  BY Starting, Staying, OwnedAtFirst, Owning, <1>1, PTL DEF Spec

(* A handler acts for a user its token was made for, and the table keeps   *)
(* the token, with a user it was made for, whatever tokens rand gives.     *)
THEOREM Sessioned == Spec => []TokenNamesItsUser
<1>1. Owned => TokenNamesItsUser
  BY DEF Owned
<1>2. QED
  BY Starting, Staying, OwnedAtFirst, Owning, <1>1, PTL DEF Spec

(* A cart changes only at the statement of a request for that product, by  *)
(* a token made for the cart's owner.                                      *)
THEOREM Ownership == Spec => OnlyOwnerChangesCart
<1> DEFINE Owner(u, p) == \E w \in Workers :
                            /\ pc[w] = "exec" /\ req[w].session # Absent /\ req[w].nome # Absent
                            /\ u \in granted[req[w].session] /\ Normal[req[w].nome] = p
           Mine == \A u \in Emails, p \in Stored :
                     carrinho'[<<u, p>>] # carrinho[<<u, p>>] => Owner(u, p)
<1>1. IInv /\ Owned /\ [Next]_vars => [Mine]_vars
  <2> SUFFICES ASSUME IInv, Owned, [Next]_vars,
                      NEW u \in Emails, NEW p \in Stored, carrinho'[<<u, p>>] # carrinho[<<u, p>>]
               PROVE  Owner(u, p)
    OBVIOUS
  <2>1. PICK w \in Workers : Execute(w)
    BY ZenonT(60) DEF Next, Step, Refuse, Admit, ReadNullSession, Connect, ExecuteFails, SelectProducts,
       SelectUser, Grant, SelectCart, LookUpProduct, CartListed, Reply, Kill, Start, tables, vars
  <2>2. Admitted(req[w]) /\ (req[w].op \in CartOps => user[w] # Absent)
    BY <2>1 DEF Execute, IInv, InProgress
  <2>3. req[w].op \in {"carrinho/add", "carrinho/del"} /\ u = user[w] /\ p = Normal[req[w].nome]
    <3>1. InsertCart(req[w], user[w]) \/ DeleteCart(req[w], user[w])
      BY <2>1 DEF Execute, Commit, InsertUser, InsertProduct
    <3>2. req[w].op \in {"carrinho/add", "carrinho/del"}
      BY <3>1 DEF InsertCart, DeleteCart
    <3>3. carrinho \in [Emails \X Stored -> 0 .. MaxRows]
      BY DEF IInv, TypeOK
    <3>4. <<u, p>> = <<user[w], Normal[req[w].nome]>>
      BY <3>1, <3>3 DEF InsertCart, DeleteCart
    <3>5. QED
      BY <3>2, <3>4
  <2>4. user[w] # Absent
    BY <2>2, <2>3 DEF CartOps
  <2>5. req[w].session \in Tokens /\ user[w] \in granted[req[w].session]
    BY <2>4 DEF IInv, InProgress, Owned, TokenNamesItsUser
  <2>6. req[w].nome \in Names
    BY <2>2, <2>3, Given
  <2>7. QED
    BY <2>1, <2>3, <2>5, <2>6, ShopAssumption DEF Execute
<1>2. QED
  BY Starting, Staying, OwnedAtFirst, Owning, <1>1, PTL DEF Spec, OnlyOwnerChangesCart, Mine

-----------------------------------------------------------------------------
(* Only a request that is being answered has been committed.               *)
Settled == \A w \in Workers : done[w] => pc[w] = "reply"

Truthful == Settled /\ AnswerIsTrue

(* A step of a worker that answers with s, or does not answer, settles     *)
(* what it says if it commits only as it answers; the others are left      *)
(* alone.                                                                  *)
LEMMA TruthStays ==
  ASSUME TypeOK, Truthful, NEW w \in Workers,
         \A v \in Workers \ {w} : /\ pc'[v] = pc[v] /\ done'[v] = done[v]
                                  /\ reply'[v] = reply[v] /\ trouble'[v] = trouble[v],
         done'[w] => pc'[w] = "reply",
         pc'[w] = "reply" =>
           /\ reply'[w].status = 204 => done'[w]
           /\ reply'[w].status \in {403, 404, 500} => ~done'[w]
           /\ reply'[w].status = 400 /\ done'[w] => trouble'[w]
  PROVE  Truthful'
<1>1. Settled'
  BY DEF Truthful, Settled
<1>2. AnswerIsTrue'
  BY DEF Truthful, AnswerIsTrue
<1>3. QED
  BY <1>1, <1>2 DEF Truthful

(* The answer a worker has decided on is the one it is about to give.      *)
LEMMA Answering ==
  ASSUME TypeOK, NEW w \in Workers, NEW s, NEW b, Answer(w, s, b)
  PROVE  /\ reply'[w].status = s /\ pc'[w] = "reply"
         /\ \A v \in Workers \ {w} : reply'[v] = reply[v] /\ pc'[v] = pc[v]
BY DEF Answer, TypeOK

LEMMA Telling == IInv /\ Truthful /\ [Next]_vars => Truthful'
<1> SUFFICES ASSUME IInv, Truthful, [Next]_vars PROVE Truthful'
  OBVIOUS
<1> USE DEF Take
<1>1. TypeOK
  BY DEF IInv
<1>2. \A w \in Workers : pc[w] # "reply" => ~done[w]
  BY DEF Truthful, Settled
<1>3. ASSUME NEW w \in Workers, NEW r \in Requests, Refuse(w, r) PROVE Truthful'
  <2>1. PICK s \in {400, 403, 404}, b \in {"empty", "text"} : Answer(w, s, b)
    BY <1>3 DEF Refuse
  <2>2. ~done[w] /\ UNCHANGED <<done, trouble>>
    BY <1>2, <1>3 DEF Refuse
  <2>3. QED
    BY <1>1, <2>1, <2>2, TruthStays, Answering
<1>4. ASSUME NEW w \in Workers, NEW r \in Requests, Admit(w, r) PROVE Truthful'
  <2>1. ~done[w] /\ UNCHANGED <<reply, done, trouble>>
    BY <1>2, <1>4 DEF Admit
  <2>2. pc'[w] = "connect" /\ \A v \in Workers \ {w} : pc'[v] = pc[v]
    BY <1>1, <1>4 DEF Admit, TypeOK
  <2>3. QED
    BY <1>1, <2>1, <2>2, TruthStays
<1>5. ASSUME NEW w \in Workers, NEW r \in Requests, ReadNullSession(w, r) PROVE Truthful'
  BY <1>5 DEF ReadNullSession, Truthful, Settled, AnswerIsTrue
<1>6. ASSUME NEW w \in Workers, Connect(w) PROVE Truthful'
  <2>1. ~done[w] /\ UNCHANGED done
    BY <1>2, <1>6 DEF Connect
  <2>2. CASE Answer(w, 500, "empty") /\ trouble' = [trouble EXCEPT ![w] = TRUE]
    <3>1. \A v \in Workers \ {w} : trouble'[v] = trouble[v]
      BY <1>1, <2>2 DEF TypeOK
    <3>2. /\ reply'[w].status = 500 /\ pc'[w] = "reply"
          /\ \A v \in Workers \ {w} : reply'[v] = reply[v] /\ pc'[v] = pc[v]
      BY <1>1, <2>2, Answering
    <3>3. QED
      BY <1>1, <2>1, <3>1, <3>2, TruthStays
  <2>3. CASE pc' = [pc EXCEPT ![w] = "exec"] /\ UNCHANGED <<reply, trouble>>
    <3>1. pc'[w] = "exec" /\ \A v \in Workers \ {w} : pc'[v] = pc[v]
      BY <1>1, <2>3 DEF TypeOK
    <3>2. QED
      BY <1>1, <2>1, <2>3, <3>1, TruthStays
  <2>4. QED
    BY <1>6, <2>2, <2>3 DEF Connect
<1>7. ASSUME NEW w \in Workers, Execute(w) PROVE Truthful'
  <2>1. done'[w] /\ \A v \in Workers \ {w} : done'[v] = done[v]
    BY <1>1, <1>7 DEF Execute, TypeOK
  <2>2. CASE Answer(w, 204, "empty") /\ UNCHANGED trouble
    BY <1>1, <2>1, <2>2, TruthStays, Answering
  <2>3. CASE Answer(w, 400, "empty") /\ trouble' = [trouble EXCEPT ![w] = TRUE]
    <3>1. trouble'[w] /\ \A v \in Workers \ {w} : trouble'[v] = trouble[v]
      BY <1>1, <2>3 DEF TypeOK
    <3>2. /\ reply'[w].status = 400 /\ pc'[w] = "reply"
          /\ \A v \in Workers \ {w} : reply'[v] = reply[v] /\ pc'[v] = pc[v]
      BY <1>1, <2>3, Answering
    <3>3. QED
      BY <1>1, <2>1, <3>1, <3>2, TruthStays
  <2>4. QED
    BY <1>7, <2>2, <2>3 DEF Execute
<1>8. ASSUME NEW w \in Workers, ExecuteFails(w) PROVE Truthful'
  <2>1. ~done[w] /\ UNCHANGED done /\ Answer(w, 400, "empty")
    BY <1>2, <1>8 DEF ExecuteFails
  <2>2. \A v \in Workers \ {w} : trouble'[v] = trouble[v]
    BY <1>1, <1>8 DEF ExecuteFails, TypeOK
  <2>3. QED
    BY <1>1, <2>1, <2>2, TruthStays, Answering
<1>9. ASSUME NEW w \in Workers, SelectProducts(w) PROVE Truthful'
  <2>1. ~done[w] /\ UNCHANGED <<done, trouble>> /\ Answer(w, 200, "list")
    BY <1>2, <1>9 DEF SelectProducts
  <2>2. QED
    BY <1>1, <2>1, TruthStays, Answering
<1>10. ASSUME NEW w \in Workers, SelectUser(w) PROVE Truthful'
  <2>1. ~done[w] /\ UNCHANGED <<done, trouble>>
    BY <1>2, <1>10 DEF SelectUser
  <2>2. CASE Answer(w, 403, "empty")
    BY <1>1, <2>1, <2>2, TruthStays, Answering
  <2>3. CASE pc' = [pc EXCEPT ![w] = "grant"] /\ UNCHANGED reply
    <3>1. pc'[w] = "grant" /\ \A v \in Workers \ {w} : pc'[v] = pc[v]
      BY <1>1, <2>3 DEF TypeOK
    <3>2. QED
      BY <1>1, <2>1, <2>3, <3>1, TruthStays
  <2>4. QED
    BY <1>10, <2>2, <2>3 DEF SelectUser
<1>11. ASSUME NEW w \in Workers, Grant(w) PROVE Truthful'
  <2>1. ~done[w] /\ UNCHANGED <<done, trouble>> /\ Answer(w, 200, "token")
    BY <1>2, <1>11 DEF Grant
  <2>2. QED
    BY <1>1, <2>1, TruthStays, Answering
<1>12. ASSUME NEW w \in Workers, SelectCart(w) PROVE Truthful'
  <2>1. ~done[w] /\ UNCHANGED <<reply, done, trouble>>
    BY <1>2, <1>12 DEF SelectCart
  <2>2. pc'[w] = "row" /\ \A v \in Workers \ {w} : pc'[v] = pc[v]
    BY <1>1, <1>12 DEF SelectCart, TypeOK
  <2>3. QED
    BY <1>1, <2>1, <2>2, TruthStays
<1>13. ASSUME NEW w \in Workers, LookUpProduct(w) PROVE Truthful'
  <2>1. pc[w] = "row" /\ ~done[w] /\ UNCHANGED <<pc, reply, done>>
    BY <1>2, <1>13 DEF LookUpProduct
  <2>2. \A v \in Workers \ {w} : trouble'[v] = trouble[v]
    BY <1>1, <1>13 DEF LookUpProduct, TypeOK
  <2>3. QED
    BY <1>1, <2>1, <2>2, TruthStays
<1>14. ASSUME NEW w \in Workers, CartListed(w) PROVE Truthful'
  <2>1. ~done[w] /\ UNCHANGED <<done, trouble>> /\ Answer(w, 200, "list")
    BY <1>2, <1>14 DEF CartListed
  <2>2. QED
    BY <1>1, <2>1, TruthStays, Answering
<1>15. ASSUME NEW w \in Workers, Reply(w) PROVE Truthful'
  <2>1. /\ pc'[w] = "idle" /\ ~done'[w]
        /\ \A v \in Workers \ {w} : pc'[v] = pc[v] /\ reply'[v] = reply[v]
    BY <1>1, <1>15 DEF Reply, TypeOK
  <2>2. \A v \in Workers \ {w} : done'[v] = done[v] /\ trouble'[v] = trouble[v]
    BY <1>1, <1>15 DEF Reply, TypeOK
  <2>3. QED
    BY <1>1, <2>1, <2>2, TruthStays
<1>16. CASE Kill
  BY <1>16 DEF Kill, Truthful, Settled, AnswerIsTrue
<1>17. CASE Start
  BY <1>17 DEF Start, Each, Truthful, Settled, AnswerIsTrue
<1>18. CASE UNCHANGED vars
  BY <1>18 DEF vars, Truthful, Settled, AnswerIsTrue
<1>19. QED
  BY <1>3, <1>4, <1>5, <1>6, <1>7, <1>8, <1>9, <1>10, <1>11, <1>12, <1>13, <1>14, <1>15,
     <1>16, <1>17, <1>18 DEF Next, Step

LEMMA TruthfulAtFirst == Init => Truthful
BY DEF Init, Each, Truthful, Settled, AnswerIsTrue

(* 204 is answered only for what was committed, and an answer that says no *)
(* is given for nothing that was, unless the database hid it.              *)
THEOREM AnswersAreTrue == Spec => []AnswerIsTrue
<1>1. Truthful => AnswerIsTrue
  BY DEF Truthful
<1>2. QED
  BY Starting, Staying, TruthfulAtFirst, Telling, <1>1, PTL DEF Spec

(* Nothing is committed twice for one request.                             *)
THEOREM Committing == Spec => CommitsOnce
<1> DEFINE Once == tables' # tables => \E w \in Workers : ~done[w] /\ done'[w]
<1>1. IInv /\ Truthful /\ [Next]_vars => [Once]_vars
  <2> SUFFICES ASSUME IInv, Truthful, [Next]_vars, tables' # tables
               PROVE  \E w \in Workers : ~done[w] /\ done'[w]
    OBVIOUS
  <2>1. PICK w \in Workers : Execute(w)
    BY ZenonT(60) DEF Next, Step, Refuse, Admit, ReadNullSession, Connect, ExecuteFails, SelectProducts,
       SelectUser, Grant, SelectCart, LookUpProduct, CartListed, Reply, Kill, Start, tables, vars
  <2>2. ~done[w]
    BY <2>1 DEF Execute, Truthful, Settled
  <2>3. done'[w]
    BY <2>1 DEF Execute, IInv, TypeOK
  <2>4. QED
    BY <2>2, <2>3
<1>2. QED
  BY Starting, Staying, TruthfulAtFirst, Telling, <1>1, PTL DEF Spec, CommitsOnce, Once

-----------------------------------------------------------------------------
(* What lies in a cart and what a listing has still to look up is in the   *)
(* catalogue, but for the products a cart got that were not.               *)
Known(p) == InCatalogue(p) \/ p \in stray
Stocked == /\ \A u \in Emails, p \in Stored : carrinho[<<u, p>>] > 0 => Known(p)
           /\ \A w \in Workers : pc[w] = "row" => \A p \in rows[w] : Known(p)

Explained == Stocked /\ ListaSafe /\ (fault = "produto" => ~up)

(* A step that takes no product out of the catalogue, puts none in a cart, *)
(* and starts no listing keeps the shop stocked.                           *)
LEMMA StockStays ==
  ASSUME Stocked, produtos \subseteq produtos', UNCHANGED <<carrinho, stray>>,
         \A w \in Workers : pc'[w] = "row" => pc[w] = "row" /\ rows'[w] \subseteq rows[w]
  PROVE  Stocked'
BY DEF Stocked, Known, InCatalogue

(* A cart listing stops the process only over a product it has still to    *)
(* look up, one with too long a name or one that entered some cart without *)
(* being in the catalogue, or because the database failed it.              *)
LEMMA Explaining == IInv /\ Explained /\ [Next]_vars => Explained'
<1> SUFFICES ASSUME IInv, Explained, [Next]_vars PROVE Explained'
  OBVIOUS
<1> USE DEF Take, tables, process
<1>1. TypeOK /\ InProgress /\ Stocked
  BY DEF IInv, Explained
<1>2. ASSUME up, UNCHANGED process, Stocked' PROVE Explained'
  BY <1>2 DEF Explained, ListaSafe
<1>3. ASSUME NEW w \in Workers, NEW r \in Requests, Refuse(w, r) PROVE Explained'
  <2>1. PICK s \in {400, 403, 404}, b \in {"empty", "text"} : Answer(w, s, b)
    BY <1>3 DEF Refuse
  <2>2. Stocked'
    BY <1>1, <1>3, <2>1, StockStays, Answering DEF Refuse
  <2>3. QED
    BY <1>2, <1>3, <2>2 DEF Refuse
<1>4. ASSUME NEW w \in Workers, NEW r \in Requests, Admit(w, r) PROVE Explained'
  <2>1. Stocked'
    BY <1>1, <1>4, StockStays DEF Admit, TypeOK
  <2>2. QED
    BY <1>2, <1>4, <2>1 DEF Admit
<1>5. ASSUME NEW w \in Workers, NEW r \in Requests, ReadNullSession(w, r) PROVE Explained'
  <2>1. Stocked'
    BY <1>1, <1>5, StockStays DEF ReadNullSession
  <2>2. QED
    BY <1>5, <2>1 DEF ReadNullSession, Down, Explained, ListaSafe
<1>6. ASSUME NEW w \in Workers, Connect(w) PROVE Explained'
  <2>1. Stocked'
    BY <1>1, <1>6, StockStays DEF Connect, Answer, TypeOK
  <2>2. QED
    BY <1>2, <1>6, <2>1 DEF Connect
<1>7. ASSUME NEW w \in Workers, Execute(w) PROVE Explained'
  <2>1. PICK s \in {204, 400} : Answer(w, s, "empty")
    BY <1>7 DEF Execute
  <2>2. pc'[w] = "reply" /\ \A v \in Workers \ {w} : pc'[v] = pc[v]
    BY <1>1, <2>1, Answering
  <2>3. UNCHANGED rows /\ Commit(req[w], user[w]) /\ up /\ UNCHANGED process
    BY <1>7 DEF Execute
  <2>4. pc[w] = "exec"
    BY <1>7 DEF Execute
  <2>5. CASE InsertUser(req[w]) \/ InsertProduct(req[w])
    <3>1. Stocked'
      BY <1>1, <2>2, <2>3, <2>5, StockStays DEF InsertUser, InsertProduct
    <3>2. QED
      BY <1>2, <2>3, <3>1
  <2>6. CASE InsertCart(req[w], user[w])
    <3>1. \A u \in Emails, p \in Stored :
            carrinho'[<<u, p>>] # carrinho[<<u, p>>] => p = Normal[req[w].nome]
      BY <1>1, <2>6 DEF InsertCart, TypeOK
    <3>2. UNCHANGED produtos /\ stray \subseteq stray'
      BY <2>6 DEF InsertCart
    <3>3. \A p : Known(p) => Known(p)'
      BY <3>2 DEF Known, InCatalogue
    <3>4. \A p \in Stored : p = Normal[req[w].nome] => Known(p)'
      <4>1. InCatalogue(Normal[req[w].nome]) \/ Normal[req[w].nome] \in stray'
        BY <2>6 DEF InsertCart
      <4>2. QED
        BY <3>2, <4>1 DEF Known, InCatalogue
    <3>5. Stocked'
      BY <1>1, <2>2, <2>3, <2>6, <3>1, <3>3, <3>4 DEF Stocked, InsertCart
    <3>6. QED
      BY <1>2, <2>3, <3>5
  <2>7. CASE DeleteCart(req[w], user[w])
    <3>1. \A u \in Emails, p \in Stored :
            carrinho'[<<u, p>>] = 0 \/ carrinho'[<<u, p>>] = carrinho[<<u, p>>]
      BY <1>1, <2>7 DEF DeleteCart, TypeOK
    <3>2. \A u \in Emails, p \in Stored : carrinho'[<<u, p>>] > 0 => carrinho[<<u, p>>] > 0
      <4>1. ~(0 > 0)
        OBVIOUS
      <4>2. QED
        BY <3>1, <4>1
    <3>3. Stocked'
      BY <1>1, <2>2, <2>3, <2>7, <3>2 DEF Stocked, DeleteCart, Known, InCatalogue
    <3>4. QED
      BY <1>2, <2>3, <3>3
  <2>8. QED
    BY <2>3, <2>5, <2>6, <2>7 DEF Commit
<1>8. ASSUME NEW w \in Workers, ExecuteFails(w) PROVE Explained'
  <2>1. Stocked'
    BY <1>1, <1>8, StockStays, Answering DEF ExecuteFails
  <2>2. QED
    BY <1>2, <1>8, <2>1 DEF ExecuteFails
<1>9. ASSUME NEW w \in Workers, SelectProducts(w) PROVE Explained'
  <2>1. pc'[w] = "reply" /\ \A v \in Workers \ {w} : pc'[v] = pc[v] /\ rows'[v] = rows[v]
    BY <1>1, <1>9 DEF SelectProducts, Answer, TypeOK
  <2>2. Stocked'
    BY <1>1, <1>9, <2>1, StockStays DEF SelectProducts
  <2>3. QED
    BY <1>2, <1>9, <2>2 DEF SelectProducts
<1>10. ASSUME NEW w \in Workers, SelectUser(w) PROVE Explained'
  <2>1. Stocked'
    BY <1>1, <1>10, StockStays DEF SelectUser, Answer, TypeOK
  <2>2. QED
    BY <1>2, <1>10, <2>1 DEF SelectUser
<1>11. ASSUME NEW w \in Workers, Grant(w) PROVE Explained'
  <2>1. Stocked'
    BY <1>1, <1>11, StockStays, Answering DEF Grant
  <2>2. QED
    BY <1>2, <1>11, <2>1 DEF Grant
<1>12. ASSUME NEW w \in Workers, SelectCart(w) PROVE Explained'
  <2>1. user[w] \in Emails
    <3>1. pc[w] = "exec" /\ req[w].op \in CartOps
      BY <1>12 DEF SelectCart, CartOps
    <3>2. user[w] # Absent
      BY <1>1, <3>1 DEF InProgress
    <3>3. user[w] \in Emails \cup {Absent}
      BY <1>1 DEF TypeOK
    <3>4. QED
      BY <3>2, <3>3
  <2>2. rows'[w] = {p \in Stored : carrinho[<<user[w], p>>] > 0}
    BY <1>1, <1>12 DEF SelectCart, TypeOK
  <2>3. \A v \in Workers \ {w} : rows'[v] = rows[v] /\ pc'[v] = pc[v]
    BY <1>1, <1>12 DEF SelectCart, TypeOK
  <2>4. Stocked'
    BY <1>1, <1>12, <2>1, <2>2, <2>3 DEF SelectCart, Stocked, Known, InCatalogue
  <2>5. QED
    BY <1>2, <1>12, <2>4 DEF SelectCart
<1>13. ASSUME NEW w \in Workers, LookUpProduct(w) PROVE Explained'
  <2>1. UNCHANGED <<tables, pc>> /\ pc[w] = "row" /\ up
    BY <1>13 DEF LookUpProduct
  <2>2. \A v \in Workers : rows'[v] \subseteq rows[v]
    <3>1. \/ UNCHANGED rows
          \/ \E p \in rows[w] : rows' = [rows EXCEPT ![w] = @ \ {p}]
      BY <1>13 DEF LookUpProduct
    <3>2. QED
      BY <1>1, <3>1 DEF TypeOK
  <2>3. Stocked'
    BY <1>1, <2>1, <2>2, StockStays
  <2>4. PICK p \in rows[w] : \/ UNCHANGED process
                             \/ (~InCatalogue(p) \/ p \in Long) /\ Down("produto") /\ UNCHANGED rows
                             \/ trouble' = [trouble EXCEPT ![w] = TRUE] /\ Down("produto")
    BY <1>13 DEF LookUpProduct
  <2>5. CASE UNCHANGED process
    BY <1>2, <2>1, <2>3, <2>5
  <2>6. CASE (~InCatalogue(p) \/ p \in Long) /\ Down("produto") /\ UNCHANGED rows
    <3>1. p \in rows'[w] \cap (stray' \cup Long)
      BY <1>1, <2>1, <2>6 DEF Stocked, Known
    <3>2. ListaSafe'
      BY <2>1, <3>1 DEF ListaSafe
    <3>3. QED
      BY <2>3, <2>6, <3>2 DEF Explained, Down
  <2>7. CASE trouble' = [trouble EXCEPT ![w] = TRUE] /\ Down("produto")
    <3>1. trouble'[w]
      BY <1>1, <2>7 DEF TypeOK
    <3>2. QED
      BY <2>1, <2>3, <2>7, <3>1 DEF Explained, ListaSafe, Down
  <2>8. QED
    BY <2>4, <2>5, <2>6, <2>7
<1>14. ASSUME NEW w \in Workers, CartListed(w) PROVE Explained'
  <2>1. Stocked'
    BY <1>1, <1>14, StockStays, Answering DEF CartListed
  <2>2. QED
    BY <1>2, <1>14, <2>1 DEF CartListed
<1>15. ASSUME NEW w \in Workers, Reply(w) PROVE Explained'
  <2>1. pc'[w] = "idle" /\ \A v \in Workers \ {w} : pc'[v] = pc[v] /\ rows'[v] = rows[v]
    BY <1>1, <1>15 DEF Reply, TypeOK
  <2>2. Stocked'
    BY <1>1, <1>15, <2>1, StockStays DEF Reply
  <2>3. QED
    BY <1>2, <1>15, <2>2 DEF Reply
<1>16. CASE Kill
  <2>1. Stocked'
    BY <1>1, <1>16, StockStays DEF Kill
  <2>2. QED
    BY <1>16, <2>1 DEF Kill, Down, Explained, ListaSafe
<1>17. CASE Start
  <2>1. Stocked'
    BY <1>1, <1>17, StockStays DEF Start, Each
  <2>2. QED
    BY <1>17, <2>1 DEF Start, Explained, ListaSafe
<1>18. CASE UNCHANGED vars
  <2>1. Stocked'
    BY <1>1, <1>18, StockStays DEF vars
  <2>2. QED
    BY <1>18, <2>1 DEF vars, Explained, ListaSafe
<1>19. QED
  BY <1>3, <1>4, <1>5, <1>6, <1>7, <1>8, <1>9, <1>10, <1>11, <1>12, <1>13, <1>14, <1>15,
     <1>16, <1>17, <1>18 DEF Next, Step

LEMMA ExplainedAtFirst == Init => Explained
<1> SUFFICES ASSUME Init PROVE Explained
  OBVIOUS
<1>1. \A u \in Emails, p \in Stored : ~(carrinho[<<u, p>>] > 0)
  <2>1. \A u \in Emails, p \in Stored : carrinho[<<u, p>>] = 0
    BY DEF Init
  <2>2. ~(0 > 0)
    OBVIOUS
  <2>3. QED
    BY <2>1, <2>2
<1>2. \A w \in Workers : pc[w] # "row"
  BY DEF Init, Each
<1>3. QED
  BY <1>1, <1>2 DEF Init, Explained, Stocked, ListaSafe

(* Listing a cart stops the process only over a product that no cart       *)
(* should hold, one whose name is too long to be looked up, or a database  *)
(* that fails it.                                                          *)
THEOREM ListingIsSafe == Spec => []ListaSafe
<1>1. Explained => ListaSafe
  BY DEF Explained
<1>2. QED
  BY Starting, Staying, ExplainedAtFirst, Explaining, <1>1, PTL DEF Spec
=============================================================================
