-------------------------------- MODULE Shop --------------------------------
(***************************************************************************)
(* The request handlers of server/main.c: register, login, the product     *)
(* catalogue and the carts.  Every connection thread, a worker here,       *)
(* handles one request at a time and workers share the session table and   *)
(* the database.  A handler checks its parameters and looks its session    *)
(* up, connects to the database, runs one statement and answers.           *)
(*                                                                         *)
(* Sessions live in the process and are lost with it; the three tables of  *)
(* the database survive.  A statement can fail, and it can be committed    *)
(* while its result is lost: the handler cannot tell the two apart.        *)
(*                                                                         *)
(* The session table is the dictionary that Tablec implements, but for one *)
(* thing: a login stores whatever token rand gave, which may be one that   *)
(* was given before.                                                       *)
(*                                                                         *)
(* A definition whose name adds a word to the one below it (GrantShared    *)
(* before Grant) is a faulty variant of that one, used by no action: it is *)
(* there to show that a property notices the fault.                        *)
(***************************************************************************)
EXTENDS Integers, FiniteSets

CONSTANTS
  Workers,   (* the connection threads                                     *)
  Emails, Passwords, Tokens,
  Names,     (* product names as they are sent                             *)
  Normal,    (* normalize_string and normalize_query_value of each name    *)
  Long,      (* stored names whose lookup does not fit get_produto_by_name *)
  Senha,     (* the password of the catalogue                              *)
  Absent,    (* a query parameter that was not sent, a session not found   *)
  Requests,  (* the requests a client may send                             *)
  MaxRows    (* bound: equal rows in the table carrinho                    *)

Ops == {"produtos/lista", "register", "login", "session/check", "produtos/add",
        "produtos/del", "carrinho/add", "carrinho/del", "carrinho/lista", "other"}
CartOps  == {"carrinho/add", "carrinho/del", "carrinho/lista"}
AdminOps == {"produtos/add", "produtos/del"}

(* A parsed request.  "nome" also stands for the parameters name and       *)
(* produto; imagem and preco are what atoi makes of them.                  *)
Request == [op : Ops, email : Emails \cup {Absent}, password : Passwords \cup {Absent},
            nome : Names \cup {Absent}, imagem : Int, preco : Int,
            senha : {Senha, Absent}, session : Tokens \cup {Absent}]

Stored == {Normal[n] : n \in Names}

ASSUME ShopAssumption ==
  /\ Normal \in [Names -> Names] /\ \A n \in Names : Normal[Normal[n]] = Normal[n]
  /\ Long \subseteq Stored
  /\ Absent \notin Emails \cup Passwords \cup Tokens \cup Names \cup {Senha}
  /\ Requests \subseteq Request
  /\ MaxRows \in Nat

VARIABLES
  usuarios,   (* rows of usuarios: e-mail and password                     *)
  produtos,   (* rows of produtos                                          *)
  carrinho,   (* rows of carrinho: how many per user and product           *)
  sessions,   (* the session table: the e-mail of each token               *)
  granted,    (* history: the e-mails each token was ever made for         *)
  pc,         (* how far each worker is with its request                   *)
  req,        (* the request it handles                                    *)
  user,       (* the e-mail the session lookup returned                    *)
  rows,       (* what its SELECT returned and it has still to use          *)
  reply,      (* the answer it is about to send                            *)
  done,       (* history: its statement was committed                      *)
  trouble,    (* history: its statement failed, or the result was lost     *)
  stray,      (* history: the products put in a cart that the catalogue    *)
              (* did not have at that time                                 *)
  up,         (* the process runs                                          *)
  fault       (* why it stopped                                            *)

vars == <<usuarios, produtos, carrinho, sessions, granted, pc, req, user, rows, reply,
          done, trouble, stray, up, fault>>

tables == <<usuarios, produtos, carrinho, stray>>
memory == <<sessions, granted>>
process == <<up, fault>>

NoReply == [status |-> 0, body |-> "empty"]
Idle == [op |-> "other", email |-> Absent, password |-> Absent, nome |-> Absent,
         imagem |-> 0, preco |-> 0, senha |-> Absent, session |-> Absent]

Each(x) == [w \in Workers |-> x]

Init == /\ usuarios = {} /\ produtos = {}
        /\ carrinho = [x \in Emails \X Stored |-> 0]
        /\ sessions = [t \in Tokens |-> Absent] /\ granted = [t \in Tokens |-> {}]
        /\ pc = Each("idle") /\ req = Each(Idle) /\ user = Each(Absent) /\ rows = Each({})
        /\ reply = Each(NoReply) /\ done = Each(FALSE) /\ trouble = Each(FALSE)
        /\ stray = {}
        /\ up = TRUE /\ fault = "none"

-----------------------------------------------------------------------------
(* What each handler checks before it turns to the database.               *)

Required ==
  [o \in Ops |-> CASE o = "register"     -> {"nome", "email", "password"}
                   [] o = "login"        -> {"email", "password"}
                   [] o = "produtos/add" -> {"nome"}
                   [] o = "produtos/del" -> {"nome"}
                   [] o = "carrinho/add" -> {"nome"}
                   [] o = "carrinho/del" -> {"nome"}
                   [] OTHER              -> {}]

Lacks(r) == \E f \in Required[r.op] : r[f] = Absent

(* The cart handlers read the session parameter without asking whether it  *)
(* was sent.                                                               *)
NullSession(r) == r.op \in CartOps /\ ~Lacks(r) /\ r.session = Absent

Forbidden(r) == \/ r.op \in AdminOps /\ r.senha # Senha
                \/ r.op \in CartOps /\ sessions[r.session] = Absent

Unknown(r) == r.op \in {"session/check", "other"}

Answer(w, s, b) == /\ reply' = [reply EXCEPT ![w] = [status |-> s, body |-> b]]
                   /\ pc' = [pc EXCEPT ![w] = "reply"]

Down(cause) == up' = FALSE /\ fault' = cause

(* A request arrives at an idle worker and is checked.                     *)
Take(w, r) ==
  /\ up /\ pc[w] = "idle"
  /\ ~NullSession(r)
  /\ req' = [req EXCEPT ![w] = r]

(* It is answered at once ...                                              *)
Refuse(w, r) ==
  /\ Take(w, r)
  /\ \/ Lacks(r) /\ Answer(w, 400, "empty")
     \/ ~Lacks(r) /\ Forbidden(r) /\ Answer(w, 403, "empty")
     \/ ~Lacks(r) /\ ~Forbidden(r) /\ r.op = "produtos/add" /\ r.preco = 0 /\ Answer(w, 400, "empty")
     \/ Unknown(r) /\ Answer(w, 404, "text")
  /\ UNCHANGED <<tables, memory, user, rows, done, trouble, process>>

(* ... or goes on to the database with the user its session names.         *)
Admit(w, r) ==
  /\ Take(w, r)
  /\ ~Lacks(r) /\ ~Forbidden(r) /\ ~Unknown(r)
  /\ r.op = "produtos/add" => r.preco # 0
  /\ user' = [user EXCEPT ![w] = IF r.op \in CartOps THEN sessions[r.session] ELSE Absent]
  /\ pc' = [pc EXCEPT ![w] = "connect"]
  /\ UNCHANGED <<tables, memory, rows, reply, done, trouble, process>>

(* ... or reads a null pointer.                                            *)
ReadNullSession(w, r) ==
  /\ up /\ pc[w] = "idle"
  /\ NullSession(r)
  /\ Down("session")
  /\ UNCHANGED <<tables, memory, pc, req, user, rows, reply, done, trouble>>

-----------------------------------------------------------------------------
(* The database.                                                           *)

Connect(w) ==
  /\ up /\ pc[w] = "connect"
  /\ \/ /\ pc' = [pc EXCEPT ![w] = "exec"]
        /\ UNCHANGED <<reply, trouble>>
     \/ /\ Answer(w, 500, "empty")
        /\ trouble' = [trouble EXCEPT ![w] = TRUE]
  /\ UNCHANGED <<tables, memory, req, user, rows, done, process>>

(* The statement a command executes.  That of produtos/del does not parse  *)
(* and so is never committed.                                              *)
InsertUser(r) == /\ r.op = "register"
                 /\ usuarios' = usuarios \cup {<<r.email, r.password>>}
                 /\ UNCHANGED <<produtos, carrinho, stray>>

InsertProductRaw(r) ==
  /\ r.op = "produtos/add"
  /\ produtos' = produtos \cup {[nome |-> r.nome, imagem |-> r.imagem, preco |-> r.preco]}
  /\ UNCHANGED <<usuarios, carrinho, stray>>
InsertProduct(r) ==
  /\ r.op = "produtos/add"
  /\ produtos' = produtos \cup {[nome |-> Normal[r.nome], imagem |-> r.imagem, preco |-> r.preco]}
  /\ UNCHANGED <<usuarios, carrinho, stray>>

InCatalogue(p) == \E q \in produtos : q.nome = p

InsertCart(r, u) ==
  LET p == Normal[r.nome] IN
  /\ r.op = "carrinho/add"
  /\ carrinho[<<u, p>>] < MaxRows
  /\ carrinho' = [carrinho EXCEPT ![<<u, p>>] = @ + 1]
  /\ stray' = IF InCatalogue(p) THEN stray ELSE stray \cup {p}
  /\ UNCHANGED <<usuarios, produtos>>

DeleteCartOfAll(r, u) ==
  /\ r.op = "carrinho/del"
  /\ carrinho' = [x \in DOMAIN carrinho |-> IF x[2] = Normal[r.nome] THEN 0 ELSE carrinho[x]]
  /\ UNCHANGED <<usuarios, produtos, stray>>
DeleteCart(r, u) ==
  /\ r.op = "carrinho/del"
  /\ carrinho' = [carrinho EXCEPT ![<<u, Normal[r.nome]>>] = 0]
  /\ UNCHANGED <<usuarios, produtos, stray>>

CommitDeletion(r, u) ==
  \/ InsertUser(r) \/ InsertProduct(r) \/ InsertCart(r, u) \/ DeleteCart(r, u)
  \/ /\ r.op = "produtos/del"
     /\ produtos' = {q \in produtos : q.nome # Normal[r.nome]}
     /\ UNCHANGED <<usuarios, carrinho, stray>>
Commit(r, u) == InsertUser(r) \/ InsertProduct(r) \/ InsertCart(r, u) \/ DeleteCart(r, u)

ExecuteAgain(w) ==
  /\ up /\ pc[w] = "exec"
  /\ Commit(req[w], user[w])
  /\ done' = [done EXCEPT ![w] = TRUE]
  /\ \/ Answer(w, 204, "empty") /\ UNCHANGED trouble
     \/ trouble' = [trouble EXCEPT ![w] = TRUE] /\ UNCHANGED <<pc, reply>>
  /\ UNCHANGED <<memory, req, user, rows, process>>
Execute(w) ==
  /\ up /\ pc[w] = "exec"
  /\ Commit(req[w], user[w])
  /\ done' = [done EXCEPT ![w] = TRUE]
  /\ \/ Answer(w, 204, "empty") /\ UNCHANGED trouble
     \/ Answer(w, 400, "empty") /\ trouble' = [trouble EXCEPT ![w] = TRUE]
  /\ UNCHANGED <<memory, req, user, rows, process>>

(* The statement is not executed: the connection broke, its text was cut   *)
(* by the array it is written to (carrinho/lista with an e-mail of 1019    *)
(* bytes, a cart's change with one of some 1000 and a product as long), or *)
(* it is the one that does not parse.  None of the cut ones is a statement:*)
(* each lost the quote that ends its last string.                          *)
ExecuteFailsUnseen(w) ==
  /\ up /\ pc[w] = "exec"
  /\ Answer(w, 204, "empty")
  /\ trouble' = [trouble EXCEPT ![w] = req[w].op # "produtos/del" \/ @]
  /\ UNCHANGED <<tables, memory, req, user, rows, done, process>>
ExecuteFails(w) ==
  /\ up /\ pc[w] = "exec"
  /\ Answer(w, 400, "empty")
  /\ trouble' = [trouble EXCEPT ![w] = req[w].op # "produtos/del" \/ @]
  /\ UNCHANGED <<tables, memory, req, user, rows, done, process>>

(* The catalogue.  Its prices are read from the column imagem.             *)
ListedPrice(p) == p.imagem

SelectProducts(w) ==
  /\ up /\ pc[w] = "exec" /\ req[w].op = "produtos/lista"
  /\ rows' = [rows EXCEPT ![w] = {[nome |-> p.nome, preco |-> ListedPrice(p)] : p \in produtos}]
  /\ Answer(w, 200, "list")
  /\ UNCHANGED <<tables, memory, req, user, done, trouble, process>>

SelectUserAny(w) ==
  /\ up /\ pc[w] = "exec" /\ req[w].op = "login"
  /\ pc' = [pc EXCEPT ![w] = "grant"]
  /\ UNCHANGED <<tables, memory, req, user, rows, reply, done, trouble, process>>
SelectUser(w) ==
  /\ up /\ pc[w] = "exec" /\ req[w].op = "login"
  /\ IF <<req[w].email, req[w].password>> \in usuarios
       THEN pc' = [pc EXCEPT ![w] = "grant"] /\ UNCHANGED reply
       ELSE Answer(w, 403, "empty")
  /\ UNCHANGED <<tables, memory, req, user, rows, done, trouble, process>>

GrantShared(w) ==
  /\ up /\ pc[w] = "grant"
  /\ \E t \in Tokens :
       /\ sessions' = [x \in Tokens |-> IF x = t \/ sessions[x] # Absent THEN req[w].email ELSE Absent]
       /\ granted'  = [granted EXCEPT ![t] = @ \cup {req[w].email}]
  /\ Answer(w, 200, "token")
  /\ UNCHANGED <<tables, req, user, rows, done, trouble, process>>
(* The login made it: a token of rand's enters the session table, with a   *)
(* copy of the e-mail.  Nothing compares it with those given before.  If   *)
(* one is the same, tablec_set adds a second cell for it and the bucket    *)
(* decides which of the two tablec_get meets first.                        *)
Grant(w) ==
  /\ up /\ pc[w] = "grant"
  /\ \E t \in Tokens :
       /\ \E met \in {req[w].email} \cup ({sessions[t]} \ {Absent}) :
            sessions' = [sessions EXCEPT ![t] = met]
       /\ granted' = [granted EXCEPT ![t] = @ \cup {req[w].email}]
  /\ Answer(w, 200, "token")
  /\ UNCHANGED <<tables, req, user, rows, done, trouble, process>>

SelectCart(w) ==
  /\ up /\ pc[w] = "exec" /\ req[w].op = "carrinho/lista"
  /\ rows' = [rows EXCEPT ![w] = {p \in Stored : carrinho[<<user[w], p>>] > 0}]
  /\ pc' = [pc EXCEPT ![w] = "row"]
  /\ UNCHANGED <<tables, memory, req, user, reply, done, trouble, process>>

(* get_produto_by_name runs a query of its own for each row of the cart.   *)
(* Its null pointer is used: for a product that is not in the catalogue,   *)
(* for one whose name leaves no room in char[1024] for the quote behind it *)
(* (988 bytes or more), so that the query does not parse, or for a         *)
(* database that fails.                                                    *)
LookUpProduct(w) ==
  /\ up /\ pc[w] = "row"
  /\ \E p \in rows[w] :
       \/ /\ InCatalogue(p) /\ p \notin Long
          /\ rows' = [rows EXCEPT ![w] = @ \ {p}]
          /\ UNCHANGED <<trouble, process>>
       \/ /\ ~InCatalogue(p) \/ p \in Long
          /\ Down("produto")
          /\ UNCHANGED <<rows, trouble>>
       \/ /\ trouble' = [trouble EXCEPT ![w] = TRUE]
          /\ Down("produto")
          /\ UNCHANGED rows
  /\ UNCHANGED <<tables, memory, pc, req, user, reply, done>>

CartListed(w) ==
  /\ up /\ pc[w] = "row" /\ rows[w] = {}
  /\ Answer(w, 200, "list")
  /\ UNCHANGED <<tables, memory, req, user, rows, done, trouble, process>>

(* The answer is sent and the worker waits for the next request.           *)
Reply(w) ==
  /\ up /\ pc[w] = "reply"
  /\ pc'    = [pc EXCEPT ![w] = "idle"]
  /\ req'   = [req EXCEPT ![w] = Idle]
  /\ user'  = [user EXCEPT ![w] = Absent]
  /\ rows'  = [rows EXCEPT ![w] = {}]
  /\ reply' = [reply EXCEPT ![w] = NoReply]
  /\ done'  = [done EXCEPT ![w] = FALSE]
  /\ trouble' = [trouble EXCEPT ![w] = FALSE]
  /\ UNCHANGED <<tables, memory, process>>

-----------------------------------------------------------------------------
(* The process is stopped from outside, wherever its workers are.          *)
Kill == /\ up
        /\ Down("killed")
        /\ UNCHANGED <<tables, memory, pc, req, user, rows, reply, done, trouble>>

(* main: a new process finds the tables as they were and has no sessions.  *)
Start ==
  /\ ~up
  /\ up' = TRUE /\ fault' = "none"
  /\ sessions' = [t \in Tokens |-> Absent]
  /\ pc' = Each("idle") /\ req' = Each(Idle) /\ user' = Each(Absent) /\ rows' = Each({})
  /\ reply' = Each(NoReply) /\ done' = Each(FALSE) /\ trouble' = Each(FALSE)
  /\ UNCHANGED <<tables, granted>>

StepNoEnd(w) == \/ Connect(w) \/ Execute(w) \/ ExecuteFails(w) \/ SelectProducts(w)
                \/ SelectUser(w) \/ Grant(w) \/ SelectCart(w) \/ LookUpProduct(w) \/ Reply(w)
Step(w) == \/ Connect(w) \/ Execute(w) \/ ExecuteFails(w) \/ SelectProducts(w) \/ SelectUser(w)
           \/ Grant(w) \/ SelectCart(w) \/ LookUpProduct(w) \/ CartListed(w) \/ Reply(w)

Next == \/ \E w \in Workers : \/ Step(w)
                              \/ \E r \in Requests : Refuse(w, r) \/ Admit(w, r) \/ ReadNullSession(w, r)
        \/ Kill \/ Start

Spec == Init /\ [][Next]_vars

(* Threads are scheduled, and the database answers every call, be it with  *)
(* an error.                                                               *)
FairSpec == Spec /\ \A w \in Workers : WF_vars(Step(w))

-----------------------------------------------------------------------------
(* Every variable holds a value of its kind: what the tables keep of a     *)
(* name is what its normalisation makes of it.                             *)
TypeOK ==
  /\ usuarios \subseteq Emails \X Passwords
  /\ produtos \subseteq [nome : Stored, imagem : Int, preco : Int \ {0}]
  /\ carrinho \in [Emails \X Stored -> 0 .. MaxRows]
  /\ sessions \in [Tokens -> Emails \cup {Absent}]
  /\ granted \in [Tokens -> SUBSET Emails]
  /\ pc \in [Workers -> {"idle", "connect", "exec", "grant", "row", "reply"}]
  /\ req \in [Workers -> Requests \cup {Idle}]
  /\ user \in [Workers -> Emails \cup {Absent}]
  /\ rows \in [Workers -> SUBSET (Stored \cup [nome : Stored, preco : Int])]
  /\ reply \in [Workers -> [status : {0, 200, 204, 400, 403, 404, 500},
                            body : {"empty", "text", "token", "list"}]]
  /\ done \in [Workers -> BOOLEAN] /\ trouble \in [Workers -> BOOLEAN]
  /\ stray \subseteq Stored /\ up \in BOOLEAN
  /\ fault \in {"none", "session", "produto", "killed"}

Registered(u) == \E p \in Passwords : <<u, p>> \in usuarios

(* No cart, no session and no request in progress belongs to an e-mail     *)
(* that was never registered, whatever the process lost on the way.        *)
CartsOfUsers ==
  /\ \A u \in Emails : (\E p \in Stored : carrinho[<<u, p>>] > 0) => Registered(u)
  /\ \A t \in Tokens : \A u \in granted[t] : Registered(u)
  /\ \A w \in Workers : user[w] # Absent => Registered(user[w])

(* A handler acts for a user its token was made for, and as long as the    *)
(* process runs the table still has that token, with a user it was made    *)
(* for: the same one, unless rand gave the token to two.                   *)
TokenNamesItsUser ==
  \A w \in Workers : user[w] # Absent =>
    LET t == req[w].session IN
      /\ user[w] \in granted[t]
      /\ up => sessions[t] \in granted[t]

(* A cart changes only by a request, for that product, with a token made   *)
(* for the cart's owner, at the one statement of that request.             *)
OnlyOwnerChangesCart ==
  [][\A u \in Emails, p \in Stored : carrinho'[<<u, p>>] # carrinho[<<u, p>>] =>
       \E w \in Workers :
         /\ pc[w] = "exec" /\ req[w].session # Absent /\ req[w].nome # Absent
         /\ u \in granted[req[w].session] /\ Normal[req[w].nome] = p]_vars

(* A request changes the tables at most once, even when the result of its  *)
(* statement was lost: nothing retries what may have been committed.       *)
CommitsOnce ==
  [][tables' # tables => \E w \in Workers : ~done[w] /\ done'[w]]_vars

(* The cart listing brings the process down only when the database fails   *)
(* it, or over a product that has still to be looked up and whose name is  *)
(* too long for that or once got into some cart without being in the       *)
(* catalogue.                                                              *)
ListaSafe ==
  fault = "produto" =>
    \E w \in Workers : pc[w] = "row" /\ (trouble[w] \/ rows[w] \cap (stray \cup Long) # {})

(* 204 is answered only for what was committed; a request answered with    *)
(* 403, 404 or 500 changed nothing, and one answered with 400 has changed  *)
(* something only if the database failed it.                               *)
AnswerIsTrue ==
  \A w \in Workers : pc[w] = "reply" =>
    /\ reply[w].status = 204 => done[w]
    /\ reply[w].status \in {403, 404, 500} => ~done[w]
    /\ reply[w].status = 400 /\ done[w] => trouble[w]

(* Every request is answered, unless the process stops.                    *)
Answered == \A w \in Workers : pc[w] # "idle" ~> pc[w] = "idle" \/ ~up

-----------------------------------------------------------------------------
(* What the comments in main.c say of the answers.                         *)

Answers(w, o) == pc[w] = "reply" /\ req[w].op = o

(* main.c:643: produtos/del answers 204, 400 or 403; with the name of a    *)
(* product, the right senha and a healthy database that is 204, and the    *)
(* product is gone.                                                        *)
DeletedIsGone ==
  \A w \in Workers :
    Answers(w, "produtos/del") /\ ~trouble[w] /\ req[w].nome # Absent /\ req[w].senha = Senha
      => reply[w].status = 204 /\ ~InCatalogue(Normal[req[w].nome])

(* main.c:123: produtos/lista answers with the "preco" of each product.    *)
ListedPriceIsStored ==
  \A w \in Workers : Answers(w, "produtos/lista") =>
    \A x \in rows[w] : \E p \in produtos : p.nome = x.nome /\ p.preco = x.preco

(* main.c:1025: carrinho/lista answers with a list; with a live session    *)
(* and a healthy database it does.                                         *)
ListaAnswers == fault = "produto" => \E w \in Workers : trouble[w]
=============================================================================
