---------------------------- MODULE SessionProofs ----------------------------
(***************************************************************************)
(* Proofs about Session, for any number of clients and of sessions.        *)
(***************************************************************************)
EXTENDS Session, TLAPS

TypeInv ==
  /\ used \subseteq Ids
  /\ granted \subseteq used
  /\ trusted \subseteq Clients
  /\ knows \in [Clients -> SUBSET used]
  /\ req \in [Clients -> {"idle", "admitted"}]

(* The store holds tokens of sessions that this process has granted, and   *)
(* only clients that know its credentials were given one of those.         *)
StoreGranted == DOMAIN store \subseteq {Token(id) : id \in granted}
GrantedTrusted == \A c \in Clients : knows[c] \cap granted # {} => c \in trusted

IndInv == TypeInv /\ StoreGranted /\ GrantedTrusted /\ OnlyTrustedServed /\ SessionsLast

(* Tokens of different sessions differ.                                    *)
LEMMA TokenInjective == ASSUME NEW i, NEW j, Token(i) = Token(j) PROVE i = j
  BY DEF Token

(* Initially the store is empty and no request has been admitted.          *)
LEMMA IndInit == Init => IndInv
  BY DEF Init, IndInv, TypeInv, StoreGranted, GrantedTrusted, OnlyTrustedServed, SessionsLast

(* What a client can present and the store knows is a token the client was *)
(* given by this process.                                                  *)
LEMMA PresentedKnown ==
  ASSUME IndInv, NEW c \in Clients, NEW t \in Presentable(c), t # NoToken, t \in DOMAIN store
  PROVE  \E id \in knows[c] \cap granted : t = Token(id)
<1>1. PICK id \in granted : t = Token(id)
  BY DEF IndInv, StoreGranted
<1>2. id \in used /\ id \in Ids
  BY DEF IndInv, TypeInv
<1>3. t \notin Ids
  BY <1>1, <1>2, IdAssumption DEF Tokens
<1>4. PICK i \in knows[c] \cup (Ids \ used) : t = Token(i)
  BY <1>3 DEF Presentable
<1> QED
  BY <1>1, <1>2, <1>4, TokenInjective

(* A login gives a session only to a client with the right credentials,    *)
(* and its token is new, so no other session is overwritten.               *)
LEMMA LoginStep == ASSUME IndInv, NEW c \in Clients, Authenticate(c) PROVE IndInv'
<1>1. c \in trusted
  BY DEF Authenticate, Credentials
<1>2. PICK id \in Ids \ used : /\ used' = used \cup {id}
                               /\ granted' = granted \cup {id}
                               /\ knows' = [knows EXCEPT ![c] = @ \cup {id}]
                               /\ AddToken(id)
  BY DEF Authenticate, NewSession
<1>3. UNCHANGED <<out, trusted, req>>
  BY DEF Authenticate
<1>4. /\ DOMAIN store' = DOMAIN store \cup {Token(id)}
      /\ store'[Token(id)] = id
      /\ \A t \in DOMAIN store : t # Token(id) => store'[t] = store[t]
  BY <1>2 DEF AddToken
<1>5. TypeInv'
  BY <1>2, <1>3 DEF IndInv, TypeInv
<1>6. StoreGranted'
  BY <1>2, <1>4 DEF IndInv, StoreGranted
<1>7. GrantedTrusted'
  <2> SUFFICES ASSUME NEW d \in Clients, NEW i \in knows'[d], i \in granted' PROVE d \in trusted'
    BY DEF GrantedTrusted
  <2>1. CASE d = c
    BY <1>1, <1>3, <2>1
  <2>2. CASE d # c
    BY <1>2, <1>3, <2>2 DEF IndInv, TypeInv, GrantedTrusted
  <2> QED
    BY <2>1, <2>2
<1>8. OnlyTrustedServed'
  BY <1>3 DEF IndInv, OnlyTrustedServed
<1>9. SessionsLast'
  <2> SUFFICES ASSUME NEW i \in granted' \ out'
               PROVE  Token(i) \in DOMAIN store' /\ store'[Token(i)] = i
    BY DEF SessionsLast
  <2>1. CASE i = id
    BY <1>4, <2>1
  <2>2. CASE i # id
    <3>1. Token(i) # Token(id)
      BY <2>2, TokenInjective
    <3>2. i \in granted \ out
      BY <1>2, <1>3, <2>2
    <3> QED
      BY <1>4, <3>1, <3>2 DEF IndInv, SessionsLast
  <2> QED
    BY <2>1, <2>2
<1> QED
  BY <1>5, <1>6, <1>7, <1>8, <1>9 DEF IndInv

(* Deleting a session takes away no token but its own.                     *)
LEMMA DeleteStep == ASSUME IndInv, NEW c \in Clients, DeleteSession(c) PROVE IndInv'
<1>0. PICK id \in Ids : \E name \in {id, Token(id)} : /\ RemoveToken(name)
                                                     /\ out' = out \cup ({id} \cap granted)
  BY DEF DeleteSession
<1>1. PICK name \in {id, Token(id)} : /\ RemoveToken(name)
                                     /\ out' = out \cup ({id} \cap granted)
  BY <1>0
<1>2. /\ UNCHANGED <<used, granted, trusted, knows>>
      /\ req' = [req EXCEPT ![c] = "idle"]
  BY DEF DeleteSession
<1>3. /\ DOMAIN store' = DOMAIN store \ {name}
      /\ \A t \in DOMAIN store' : store'[t] = store[t]
  BY <1>1 DEF RemoveToken
<1>4. TypeInv' /\ StoreGranted' /\ GrantedTrusted' /\ OnlyTrustedServed'
  BY <1>2, <1>3 DEF IndInv, TypeInv, StoreGranted, GrantedTrusted, OnlyTrustedServed
<1>5. SessionsLast'
  <2> SUFFICES ASSUME NEW i \in granted' \ out'
               PROVE  Token(i) \in DOMAIN store' /\ store'[Token(i)] = i
    BY DEF SessionsLast
  <2>1. i \in granted \ out /\ i # id /\ i \in Ids
    BY <1>1, <1>2 DEF IndInv, TypeInv
  <2>2. Token(i) # Token(id)
    BY <2>1, TokenInjective
  <2>3. Token(i) # id
    BY <2>1, IdAssumption DEF Tokens
  <2>4. Token(i) # name
    BY <2>2, <2>3
  <2> QED
    BY <1>3, <2>1, <2>4 DEF IndInv, SessionsLast
<1> QED
  BY <1>4, <1>5 DEF IndInv

(* Every step preserves the invariant, one case per action.                *)
LEMMA IndStep == IndInv /\ [Next]_vars => IndInv'
<1> SUFFICES ASSUME IndInv, [Next]_vars PROVE IndInv'
  OBVIOUS
<1>1. ASSUME NEW c \in Clients, Authenticate(c) PROVE IndInv'
  BY <1>1, LoginStep
<1>2. ASSUME NEW c \in Clients, AuthMiddleware(c) PROVE IndInv'
  <2>1. c \in trusted
    <3>1. PICK basic \in Credentials(c) \cup {"missing"}, t \in Presentable(c) :
            basic = "right" \/ (t # NoToken /\ t \in DOMAIN store)
      BY <1>2 DEF AuthMiddleware
    <3>2. CASE basic = "right"
      BY <3>1, <3>2 DEF Credentials
    <3>3. CASE t # NoToken /\ t \in DOMAIN store
      BY <3>3, PresentedKnown DEF IndInv, GrantedTrusted
    <3> QED
      BY <3>1, <3>2, <3>3
  <2>2. /\ UNCHANGED <<store, used, granted, out, trusted, knows>>
        /\ req' = [req EXCEPT ![c] = "admitted"]
    BY <1>2 DEF AuthMiddleware
  <2> QED
    BY <2>1, <2>2 DEF IndInv, TypeInv, StoreGranted, GrantedTrusted, OnlyTrustedServed, SessionsLast
<1>3. ASSUME NEW c \in Clients, DeleteSession(c) PROVE IndInv'
  BY <1>3, DeleteStep
<1>4. ASSUME NEW c \in Clients, OtherHandler(c) PROVE IndInv'
  BY <1>4 DEF OtherHandler, IndInv, TypeInv, StoreGranted, GrantedTrusted, OnlyTrustedServed,
              SessionsLast
<1>5. CASE Restart
  BY <1>5 DEF Restart, IndInv, TypeInv, StoreGranted, GrantedTrusted, OnlyTrustedServed,
              SessionsLast
<1>6. CASE UNCHANGED vars
  BY <1>6 DEF vars, IndInv, TypeInv, StoreGranted, GrantedTrusted, OnlyTrustedServed, SessionsLast
<1> QED
  BY <1>1, <1>2, <1>3, <1>4, <1>5, <1>6 DEF Next

(* The invariant holds in every reachable state.                           *)
LEMMA IndCorrect == Spec => []IndInv
  BY IndInit, IndStep, PTL DEF Spec

(* Only clients that know the credentials of the running process get past  *)
(* AuthMiddleware, whatever old passwords, lapsed tokens, made-up tokens   *)
(* and session ids any number of clients send.                             *)
THEOREM OnlyTrusted == Spec => []OnlyTrustedServed
<1>1. IndInv => OnlyTrustedServed
  BY DEF IndInv
<1> QED
  BY <1>1, IndCorrect, PTL

(* A session ends by its own DELETE or with the process, never by another  *)
(* session's login or DELETE, for any number of clients and sessions.      *)
THEOREM SessionsIndependent == Spec => []SessionsLast
<1>1. IndInv => SessionsLast
  BY DEF IndInv
<1> QED
  BY <1>1, IndCorrect, PTL
=============================================================================
