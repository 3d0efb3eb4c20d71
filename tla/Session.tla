------------------------------- MODULE Session -------------------------------
(***************************************************************************)
(* Redfish sessions: the token store and the authentication middleware of  *)
(* src/pkg/session/token.go, and the handlers that log in and out          *)
(* (src/pkg/redfish/handler.go).  Every critical section of the store's    *)
(* lock is one step; between the middleware and the handler other requests *)
(* run.  A client knows the tokens of the sessions it was given and no     *)
(* other's: a token is a hash of a random id.                              *)
(***************************************************************************)
CONSTANTS
  Clients,   \* the clients, each with one request at a time
  Ids        \* the session ids uuid.New returns (bounds the number of logins)

(* Mutant: the hash covers the user's name and not the session's id.       *)
TokenOfUser(id) == <<"sha256", "user">>

(* generateToken: the SHA-256 of the session.                              *)
Token(id) == <<"sha256", id>>
Tokens == {Token(id) : id \in Ids}

(* A UUID is never 64 hexadecimal digits.                                  *)
ASSUME IdAssumption == Ids \cap Tokens = {}

NoToken == <<"none">>

VARIABLES
  store,    \* ts.store: from tokens to session ids
  used,     \* ids handed out by uuid.New so far
  granted,  \* history: ids of the sessions that this process has granted
  out,      \* history: those of them whose DELETE has been answered 204
  trusted,  \* the clients that know the credentials of this process
  knows,    \* the ids of the sessions each client was given, lapsed or not
  req       \* each client's request: none, or one past the middleware

vars == <<store, used, granted, out, trusted, knows, req>>

Init ==
  /\ store = [t \in {} |-> {}]
  /\ used = {}
  /\ granted = {}
  /\ out = {}
  /\ trusted \in SUBSET Clients
  /\ knows = [c \in Clients |-> {}]
  /\ req = [c \in Clients |-> "idle"]

-----------------------------------------------------------------------------
(* A user and a password that a client may send.                           *)
Credentials(c) == {"wrong"} \cup (IF c \in trusted THEN {"right"} ELSE {})

(* What it may send as X-Auth-Token: nothing, a token it was given, now or *)
(* by an earlier process, one that nobody was given, or a session's id.    *)
Presentable(c) == {NoToken} \cup {Token(id) : id \in knows[c] \cup (Ids \ used)} \cup Ids

(* AddToken.                                                               *)
AddToken(id) ==
  store' = [t \in DOMAIN store \cup {Token(id)} |->
              IF t = Token(id) THEN id ELSE store[t]]

(* RemoveToken: delete(ts.store, token), nothing when there is no such key.*)
RemoveToken(name) ==
  store' = [t \in DOMAIN store \ {name} |-> store[t]]

(* A session with a fresh id for c.                                        *)
NewSession(c) ==
  \E id \in Ids \ used :
    /\ used' = used \cup {id}
    /\ granted' = granted \cup {id}
    /\ knows' = [knows EXCEPT ![c] = @ \cup {id}]
    /\ AddToken(id)

(* Mutant: it is only looked whether there is a user and a password.       *)
AuthenticateAnyone(c) ==
  /\ req[c] = "idle"
  /\ \E credentials \in Credentials(c) \cup {"missing"} :
       /\ credentials # "missing"
       /\ NewSession(c)
  /\ UNCHANGED <<out, trusted, req>>

(* POST Sessions, outside the middleware.  Without a user and a password,  *)
(* or with wrong ones, the answer is 401 and nothing changes.              *)
Authenticate(c) ==
  /\ req[c] = "idle"
  /\ \E credentials \in Credentials(c) \cup {"missing"} :
       /\ credentials # "missing"
       /\ credentials = "right"
       /\ NewSession(c)
  /\ UNCHANGED <<out, trusted, req>>

(* AuthMiddleware: basic credentials, when present, decide alone; without  *)
(* them there must be an X-Auth-Token and it must be a key of the store.   *)
(* A request that is turned away (401) changes nothing.                    *)
AuthMiddleware(c) ==
  /\ req[c] = "idle"
  /\ \E basic \in Credentials(c) \cup {"missing"}, t \in Presentable(c) :
       \/ basic = "right"
       \/ basic = "missing" /\ t # NoToken /\ t \in DOMAIN store
  /\ req' = [req EXCEPT ![c] = "admitted"]
  /\ UNCHANGED <<store, used, granted, out, trusted, knows>>

(* DELETE Sessions/{name}: DeleteSession hands the name in the URL to      *)
(* RemoveToken; the answer is 204 whatever the name.  A client names a     *)
(* session by its id, as POST has answered, or by its token.               *)
DeleteSession(c) ==
  /\ req[c] = "admitted"
  /\ \E id \in Ids : \E name \in {id, Token(id)} :
       /\ RemoveToken(name)
       /\ out' = out \cup ({id} \cap granted)
  /\ req' = [req EXCEPT ![c] = "idle"]
  /\ UNCHANGED <<used, granted, trusted, knows>>

(* Every other handler behind the middleware leaves the store alone        *)
(* (GetSession looks an id up under the read lock).                        *)
OtherHandler(c) ==
  /\ req[c] = "admitted"
  /\ req' = [req EXCEPT ![c] = "idle"]
  /\ UNCHANGED <<store, used, granted, out, trusted, knows>>

(* The agent's process ends and another one starts, with an empty store    *)
(* and the credentials the Secret has by then.                             *)
Restart ==
  /\ store' = [t \in {} |-> {}]
  /\ granted' = {}
  /\ out' = {}
  /\ trusted' \in SUBSET Clients
  /\ req' = [c \in Clients |-> "idle"]
  /\ UNCHANGED <<used, knows>>

Next ==
  \/ \E c \in Clients :
       Authenticate(c) \/ AuthMiddleware(c) \/ DeleteSession(c) \/ OtherHandler(c)
  \/ Restart

Spec == Init /\ [][Next]_vars

-----------------------------------------------------------------------------
(* Only clients that know the present credentials are served.  A client    *)
(* whose credentials have been replaced, and the agent restarted for it,   *)
(* gets no further with its old password or with a token of the earlier    *)
(* process, and nothing but the login hands out a token that passes.       *)
OnlyTrustedServed == \A c \in Clients : req[c] = "admitted" => c \in trusted

(* A session lasts until it is deleted itself: whatever other clients'     *)
(* logins and logouts run in the meantime, its token finds it in the store *)
(* of the process that has granted it.                                     *)
SessionsLast ==
  \A id \in granted \ out : Token(id) \in DOMAIN store /\ store[Token(id)] = id

(* "Log out by deleting the session" (README.md:405): a token whose        *)
(* session has been deleted no longer passes the middleware.               *)
LogoutEndsSession == \A id \in out : Token(id) \notin DOMAIN store
=============================================================================
