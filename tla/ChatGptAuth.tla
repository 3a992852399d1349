----------------------------- MODULE ChatGptAuth -----------------------------
(* Sign in with ChatGPT (providers/chatgpt/auth.go and storage.go): providers    *)
(* that share one credential directory, in one process or in several, sign in,    *)
(* renew, select and disconnect accounts.  Everything they know is in one file,   *)
(* read and replaced under an operating system lock (withState, save); a sign-in  *)
(* runs for minutes in a goroutine of its own and takes the lock three times.     *)
(* One action is one use of the lock, or one request to the authorization server  *)
(* or its answer; renewal and disconnect keep the lock during their request.      *)
(* Access tokens come and go with refresh tokens; scopes, e-mail addresses and    *)
(* the times of single tokens are left out.                                       *)
EXTENDS Naturals

CONSTANTS Attempts,       \* calls of StartLogin
          Profiles,       \* local names of accounts
          Owners,         \* the providers that share the directory, over time
          Users,          \* the subjects that may sign in
          MaxRotations,   \* bound on the renewals of one session
          Environments    \* the sets of faults a behaviour may meet

None == "none"

\* save:   the file cannot be written, or its replacement is reported as failed
\* revoke: a revocation is not confirmed
\* lost:   an answer of the token endpoint is lost (or its reader has left)
\* busy:   the last use of the lock of a sign-in times out
\* close:  a provider is closed
\* crash:  a process ends
Faults == {"save", "revoke", "lost", "busy", "close", "crash"}

ASSUME NamesAssumption == None \notin Attempts \cup Profiles \cup Owners \cup Users
ASSUME RotationsAssumption == MaxRotations \in Nat
ASSUME EnvironmentsAssumption == Environments \subseteq SUBSET Faults

VARIABLES
  file,       \* accounts.dat
  op,         \* the renewal or disconnect that holds the lock
  owner,      \* Provider.closed: "open", "closing", "closed"; "dead" after a crash
  pc,         \* where a sign-in is
  by, profile, client, user,   \* its provider, profile, client id and subject
  tokens,     \* sign-ins that were given their tokens
  failure,    \* what a sign-in will report
  late,       \* sign-ins whose ten minutes are over
  session,    \* the authorization server: the session each sign-in opened
  rotation,   \* how many refresh tokens it has issued for it
  replaced,   \* sessions that a later sign-in to the same account replaced
  faults      \* the faults of this behaviour, which never change

names  == <<by, profile, client, user>>
login  == <<pc, names, tokens, failure, late>>
server == <<session, rotation>>
vars   == <<file, op, owner, login, server, replaced, faults>>

Token(a, n) == [session |-> a, n |-> n]
NoToken     == Token(None, 0)
Tokens      == [session : Attempts \cup {None}, n : 0 .. MaxRotations]
Blank       == [client |-> None, user |-> None, token |-> NoToken]
Account     == [client : Attempts \cup {None}, user : Users \cup {None}, token : Tokens]

\* pending and waiting are PendingAttempt, and whether PendingUntil is in the future.
State == [accounts : [Profiles -> Account], active : Profiles \cup {None},
          last : Profiles \cup {None}, pending : Attempts \cup {None},
          waiting : BOOLEAN, error : {"none", "failed", "unconfirmed"}]

Op(kind, o, p, t) == [kind |-> kind, owner |-> o, profile |-> p, token |-> t, answer |-> "none"]
NoOp == Op("none", None, None, NoToken)

Running == {"wait", "register", "exchange", "answer", "verify", "store", "revoke", "cleanup"}

TypeOK ==
  /\ file \in State /\ owner \in [Owners -> {"open", "closing", "closed", "dead"}]
  /\ op \in [kind : {"none", "renew", "disconnect"}, owner : Owners \cup {None},
             profile : Profiles \cup {None}, token : Tokens,
             answer : {"none", "renewed", "cleared", "failed"}]
  /\ pc \in [Attempts -> {"idle", "ended", "dead"} \cup Running]
  /\ by \in [Attempts -> Owners \cup {None}] /\ profile \in [Attempts -> Profiles \cup {None}]
  /\ client \in [Attempts -> Attempts \cup {None}] /\ user \in [Attempts -> Users \cup {None}]
  /\ tokens \subseteq Attempts /\ late \subseteq Attempts /\ replaced \subseteq Attempts
  /\ failure \in [Attempts -> {"none", "failed", "unconfirmed"}]
  /\ session \in [Attempts -> {"none", "live", "dead"}]
  /\ rotation \in [Attempts -> 0 .. MaxRotations] /\ faults \in Environments

Init ==
  /\ file = [accounts |-> [p \in Profiles |-> Blank], active |-> None, last |-> None,
             pending |-> None, waiting |-> FALSE, error |-> "none"]
  /\ op = NoOp /\ owner = [o \in Owners |-> "open"]
  /\ pc = [a \in Attempts |-> "idle"] /\ by = [a \in Attempts |-> None]
  /\ profile = [a \in Attempts |-> None] /\ client = [a \in Attempts |-> None]
  /\ user = [a \in Attempts |-> None] /\ tokens = {} /\ late = {} /\ replaced = {}
  /\ failure = [a \in Attempts |-> "none"]
  /\ session = [a \in Attempts |-> "none"] /\ rotation = [a \in Attempts |-> 0]
  /\ faults \in Environments

------------------------------------------------------------------------------
(* The store.                                                                  *)

\* Both requests that hold the lock are made within withState.
LockIgnored == TRUE                                              \* mutant
LockFree    == op = NoOp

\* save reports success, or a failure: the file may have been replaced all the same.
Saved(new)     == file' = new
SaveFails(new) == "save" \in faults /\ file' \in {file, new}

\* Another step of the sign-in, which fails or goes on.
Go(a, where)        == pc' = [pc EXCEPT ![a] = where] /\ UNCHANGED failure
Fail(a, where)      == /\ pc' = [pc EXCEPT ![a] = where]
                       /\ failure' = [failure EXCEPT ![a] = "failed"]

\* loginCtx: ten minutes, or the provider's Close.
ContextDone(a) == a \in late \/ owner[by[a]] # "open"

------------------------------------------------------------------------------
(* StartLogin.                                                                 *)

\* A new account gets a random name; an entry in which nothing was written yet is
\* as good as none.
Candidates(newAccount) ==
  LET base == IF file.active # None THEN file.active ELSE file.last
  IN IF newAccount \/ base = None
     THEN {p \in Profiles : file.accounts[p] = Blank} ELSE {base}

StartLogin(a, o, newAccount) ==
  /\ pc[a] = "idle" /\ owner[o] = "open" /\ LockFree /\ ~file.waiting
  /\ \E p \in Candidates(newAccount) :
       LET new == [file EXCEPT !.last = p, !.pending = a, !.waiting = TRUE, !.error = "none"]
       IN \/ /\ Saved(new)
             /\ Go(a, "wait")
             /\ by' = [by EXCEPT ![a] = o] /\ profile' = [profile EXCEPT ![a] = p]
             /\ client' = [client EXCEPT ![a] = file.accounts[p].client]
          \/ /\ SaveFails(new)
             /\ Fail(a, "ended")
             /\ UNCHANGED <<by, profile, client>>
  /\ UNCHANGED <<op, owner, user, tokens, late, server, replaced, faults>>

------------------------------------------------------------------------------
(* The goroutine of a sign-in: the browser's callback, completeLogin, cleanup.  *)

\* The client id of the callback, which a registered account keeps.
IssuedAnew(a) == a                                               \* mutant
Issued(a)     == IF client[a] = None THEN a ELSE client[a]

\* The callback brings a code, or no consent.
Callback(a) ==
  /\ pc[a] = "wait"
  /\ \/ /\ Go(a, "register")
        /\ client' = [client EXCEPT ![a] = Issued(a)]
     \/ Fail(a, "cleanup") /\ UNCHANGED client
  /\ UNCHANGED <<file, op, owner, by, profile, user, tokens, late, server, replaced, faults>>

Cancelled(a) ==
  /\ pc[a] = "wait" /\ ContextDone(a)
  /\ Fail(a, "cleanup")
  /\ UNCHANGED <<file, op, owner, names, tokens, late, server, replaced, faults>>

PendingIgnored(a) == TRUE                                        \* mutant
Pending(a)        == file.pending = a

\* withState fails: its function does, or the context ends while it waits.
Refused(a, allowed) == IF LockFree THEN ~allowed ELSE ContextDone(a)

Registered(a) == [file EXCEPT !.accounts[profile[a]].client = client[a]]

\* The issued client id is on disk before the code is exchanged.
Register(a) ==
  /\ pc[a] = "register"
  /\ \/ LockFree /\ Pending(a) /\ Saved(Registered(a)) /\ Go(a, "exchange")
     \/ LockFree /\ Pending(a) /\ SaveFails(Registered(a)) /\ Fail(a, "cleanup")
     \/ Refused(a, Pending(a)) /\ Fail(a, "cleanup") /\ UNCHANGED file
  /\ UNCHANGED <<op, owner, names, tokens, late, server, replaced, faults>>

\* The server opens a session for the code ...
Exchange(a) ==
  /\ pc[a] = "exchange" /\ ~ContextDone(a)
  /\ session' = [session EXCEPT ![a] = "live"]
  /\ \E u \in Users : user' = [user EXCEPT ![a] = u]
  /\ Go(a, "answer")
  /\ UNCHANGED <<file, op, owner, by, profile, client, tokens, late, rotation, replaced, faults>>

ExchangeFails(a) ==
  /\ pc[a] = "exchange"
  /\ Fail(a, "cleanup")
  /\ UNCHANGED <<file, op, owner, names, tokens, late, server, replaced, faults>>

\* ... and its tokens arrive, or do not.
Answer(a) ==
  /\ pc[a] = "answer"
  /\ \/ Go(a, "verify") /\ tokens' = tokens \cup {a}
     \/ ("lost" \in faults \/ ContextDone(a)) /\ Fail(a, "cleanup") /\ UNCHANGED tokens
  /\ UNCHANGED <<file, op, owner, names, late, server, replaced, faults>>

DropTokens  == "cleanup"                                         \* mutant
GiveTokens  == "revoke"

\* The answer and its identity token are validated.
Verify(a) ==
  /\ pc[a] = "verify"
  /\ Go(a, "store") \/ Fail(a, GiveTokens)
  /\ UNCHANGED <<file, op, owner, names, tokens, late, server, replaced, faults>>

Storable(a) ==
  LET value == file.accounts[profile[a]]
  IN Pending(a) /\ ~ContextDone(a) /\ value.client = client[a] /\ value.user \in {None, user[a]}

Stored(a) ==
  [file EXCEPT !.active = profile[a],
     !.accounts[profile[a]] = [client |-> client[a], user |-> user[a], token |-> Token(a, 0)]]

Store(a) ==
  /\ pc[a] = "store"
  /\ \/ LockFree /\ Storable(a) /\ Saved(Stored(a)) /\ Go(a, "cleanup")
     \/ LockFree /\ Storable(a) /\ SaveFails(Stored(a)) /\ Fail(a, GiveTokens)
     \/ Refused(a, Storable(a)) /\ Fail(a, GiveTokens) /\ UNCHANGED file
  /\ replaced' = IF file' = file THEN replaced
                 ELSE replaced \cup ({file.accounts[profile[a]].token.session} \ {None})
  /\ UNCHANGED <<op, owner, names, tokens, late, server, faults>>

\* The deferred revocation of tokens that were not stored.
Revoke(a) ==
  /\ pc[a] = "revoke"
  /\ pc' = [pc EXCEPT ![a] = "cleanup"]
  /\ \/ session' = [session EXCEPT ![a] = "dead"] /\ UNCHANGED failure
     \/ /\ "revoke" \in faults
        /\ failure' = [failure EXCEPT ![a] = "unconfirmed"]
        /\ session' \in {session, [session EXCEPT ![a] = "dead"]}
  /\ UNCHANGED <<file, op, owner, names, tokens, late, rotation, replaced, faults>>

\* The end: no longer pending, and the failure is there to be shown, unless another
\* sign-in has taken over.  Five seconds are all this waits for the lock.
Cleaned(a) == [file EXCEPT !.pending = None, !.waiting = FALSE,
                           !.error = IF failure[a] = "none" THEN @ ELSE failure[a]]

Cleanup(a) ==
  /\ pc[a] = "cleanup"
  /\ \/ LockFree /\ Pending(a) /\ (Saved(Cleaned(a)) \/ SaveFails(Cleaned(a)))
     \/ LockFree /\ ~Pending(a) /\ UNCHANGED file
     \/ ~LockFree /\ "busy" \in faults /\ UNCHANGED file
  /\ Go(a, "ended")
  /\ UNCHANGED <<op, owner, names, tokens, late, server, replaced, faults>>

LoginStep(a) ==
  \/ Callback(a) \/ Cancelled(a) \/ Register(a) \/ Exchange(a) \/ ExchangeFails(a)
  \/ Answer(a) \/ Verify(a) \/ Store(a) \/ Revoke(a) \/ Cleanup(a)

------------------------------------------------------------------------------
(* accessToken and Disconnect hold the lock during their request; Select does   *)
(* not make one.                                                               *)

Connected == file.active # None /\ file.accounts[file.active].token # NoToken

\* The active account's access token is about to expire.
BeginRenewal(o) ==
  /\ owner[o] # "dead" /\ LockFree /\ Connected
  /\ op' = Op("renew", o, file.active, file.accounts[file.active].token)
  /\ UNCHANGED <<file, owner, login, server, replaced, faults>>

BeginDisconnect(o) ==
  /\ owner[o] # "dead" /\ LockFree /\ ~file.waiting /\ Connected
  /\ op' = Op("disconnect", o, file.active, file.accounts[file.active].token)
  /\ UNCHANGED <<file, owner, login, server, replaced, faults>>

Answered(kind, answer) ==
  /\ op.kind = kind /\ op.answer = "none"
  /\ op' = [op EXCEPT !.answer = answer]
  /\ UNCHANGED <<file, owner, login, replaced, faults>>

Lossy(answer) == {answer} \cup IF "lost" \in faults THEN {"failed"} ELSE {}

Current(token) == session[token.session] = "live" /\ rotation[token.session] = token.n

\* The server takes a current refresh token and issues the next one.
Rotate ==
  /\ op.kind = "renew" /\ Current(op.token) /\ op.token.n < MaxRotations
  /\ \E answer \in Lossy("renewed") : Answered("renew", answer)
  /\ rotation' = [rotation EXCEPT ![op.token.session] = @ + 1]
  /\ UNCHANGED session

\* It issues no next one, or the token was used before: the session is over.
EndSession ==
  /\ op.kind = "renew"
  /\ \E answer \in Lossy("cleared") : Answered("renew", answer)
  /\ session' = [session EXCEPT ![op.token.session] = "dead"]
  /\ UNCHANGED rotation

\* Disconnect revokes the session.
RevokeSession ==
  /\ op.kind = "disconnect"
  /\ \E answer \in {"cleared"} \cup (faults \cap {"revoke"}) :
       Answered("disconnect", IF answer = "revoke" THEN "failed" ELSE answer)
  /\ session' = [session EXCEPT ![op.token.session] = "dead"]
  /\ UNCHANGED rotation

\* The server is not reached, or declines for now.
Unavailable ==
  /\ Answered(op.kind, "failed") /\ op.kind # "none"
  /\ UNCHANGED server

\* What withState saves: the token that was issued, or none.
NewToken(p) == IF op.answer = "renewed" THEN Token(op.token.session, op.token.n + 1) ELSE NoToken

Finish ==
  /\ op.answer # "none"
  /\ op' = NoOp
  /\ LET new == [file EXCEPT !.accounts[op.profile].token = NewToken(op.profile)]
     IN IF op.answer = "failed" THEN UNCHANGED file ELSE Saved(new) \/ SaveFails(new)
  /\ UNCHANGED <<owner, login, server, replaced, faults>>

OpStep == Rotate \/ EndSession \/ RevokeSession \/ Unavailable \/ Finish

Select(o, p) ==
  /\ owner[o] # "dead" /\ LockFree /\ ~file.waiting /\ file.accounts[p].user # None
  /\ LET new == [file EXCEPT !.active = p] IN Saved(new) \/ SaveFails(new)
  /\ UNCHANGED <<op, owner, login, server, replaced, faults>>

------------------------------------------------------------------------------
(* Close, crashes and time.                                                    *)

Logins(o) == {a \in Attempts : by[a] = o /\ pc[a] \in Running}

Close(o) ==
  /\ "close" \in faults /\ owner[o] = "open"
  /\ owner' = [owner EXCEPT ![o] = "closing"]
  /\ UNCHANGED <<file, op, login, server, replaced, faults>>

\* loginWG.Wait returns.
CloseReturns(o) ==
  /\ owner[o] = "closing" /\ Logins(o) = {}
  /\ owner' = [owner EXCEPT ![o] = "closed"]
  /\ UNCHANGED <<file, op, login, server, replaced, faults>>

\* The operating system releases the lock of a process that ends.
Crash(o) ==
  /\ "crash" \in faults /\ owner[o] # "dead"
  /\ owner' = [owner EXCEPT ![o] = "dead"]
  /\ op' = IF op.owner = o THEN NoOp ELSE op
  /\ pc' = [a \in Attempts |-> IF a \in Logins(o) THEN "dead" ELSE pc[a]]
  /\ UNCHANGED <<file, names, tokens, failure, late, server, replaced, faults>>

\* PendingUntil passes; the context of that sign-in ends a moment later.
PendingExpires ==
  /\ file.waiting
  /\ file' = [file EXCEPT !.waiting = FALSE]
  /\ UNCHANGED <<op, owner, login, server, replaced, faults>>

LoginTimesOut(a) ==
  /\ pc[a] \in Running /\ a \notin late /\ ~(file.waiting /\ Pending(a))
  /\ late' = late \cup {a}
  /\ UNCHANGED <<file, op, owner, pc, names, tokens, failure, server, replaced, faults>>

------------------------------------------------------------------------------
Next ==
  \/ \E a \in Attempts, o \in Owners, new \in BOOLEAN : StartLogin(a, o, new)
  \/ \E a \in Attempts : LoginStep(a) \/ LoginTimesOut(a)
  \/ \E o \in Owners : BeginRenewal(o) \/ BeginDisconnect(o) \/ Close(o) \/ CloseReturns(o)
                       \/ Crash(o) \/ \E p \in Profiles : Select(o, p)
  \/ OpStep \/ PendingExpires

Spec == Init /\ [][Next]_vars

------------------------------------------------------------------------------
(* Properties.                                                                 *)

Held(a) == \E p \in Profiles : file.accounts[p].token.session = a

\* No session is forgotten: one that is live and whose tokens reached a process that
\* did not crash is in the store, or in the hands of its sign-in, or replaced by a
\* later one, or its sign-in knows that its revocation was not confirmed
\* (README of the provider, 61-63).  So it is whatever else fails.
SessionsAccounted ==
  "crash" \notin faults =>
    \A a \in tokens : session[a] = "live" =>
      Held(a) \/ a \in replaced \/ pc[a] \in {"verify", "store", "revoke"}
              \/ failure[a] = "unconfirmed"

\* The refresh token on disk is the one the server expects, unless the renewal or the
\* disconnect that has used it up is about to write: no owner ever presents a token that
\* was used before, which would end the session of all.
StoredTokenIsCurrent ==
  faults \subseteq {"busy", "close"} =>
    \A p \in Profiles :
      file.accounts[p].token # NoToken =>
        Current(file.accounts[p].token) \/ (op.profile = p /\ op.answer \in {"renewed", "cleared"})

\* A registration is for good: whatever fails, crashes or is disconnected, the client id
\* and the subject of an account neither change nor get lost.
RegistrationKept ==
  [][\A p \in Profiles :
       LET old == file.accounts[p]  new == file'.accounts[p]
       IN /\ old.client # None => new.client = old.client
          /\ old.user # None => new.user = old.user]_vars

\* An account with credentials, and the active one, is registered and verified.
Verified(value) == value.client # None /\ value.user # None
AccountsVerified ==
  /\ \A p \in Profiles : file.accounts[p].token # NoToken => Verified(file.accounts[p])
  /\ file.active # None => Verified(file.accounts[file.active])

\* What is pending is under way: after its sign-in has ended nobody has to wait ten
\* minutes before the next one.
PendingIsRunning ==
  faults \subseteq {"revoke", "lost", "close"} =>
    (file.pending # None => pc[file.pending] \in Running)

\* After Close has returned, no sign-in of the provider touches the store again.
ClosedIsQuiet == \A o \in Owners : owner[o] = "closed" => Logins(o) = {}

\* The sign-in that is pending knows the registration of its account, also when another
\* one registered it before: what it writes is no other client id.
RegistrationKnown ==
  \A a \in Attempts : file.pending = a =>
    /\ pc[a] = "wait" => client[a] = file.accounts[profile[a]].client
    /\ pc[a] = "register" => file.accounts[profile[a]].client \in {None, client[a]}

IInv == TypeOK /\ AccountsVerified /\ RegistrationKnown /\ ClosedIsQuiet /\ PendingIsRunning
==============================================================================
