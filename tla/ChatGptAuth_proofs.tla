-------------------------- MODULE ChatGptAuth_proofs --------------------------
(* Proofs about the sign-ins and the store they share, for any number of         *)
(* attempts, accounts, providers, subjects and renewals, and in any environment.  *)
EXTENDS ChatGptAuth, TLAPS

USE NamesAssumption, RotationsAssumption, EnvironmentsAssumption

------------------------------------------------------------------------------
(* What makes the properties inductive.                                        *)

\* What a sign-in knows, by where it is: its account, its registration, its subject; and
\* what the server knows of it before its tokens are stored.
LoginKnows(a) ==
  /\ pc[a] \notin {"idle", "ended"} => by[a] # None /\ profile[a] # None
  /\ pc[a] \in {"register", "exchange", "answer", "verify", "store", "revoke"} =>
       client[a] # None
  /\ pc[a] \in {"answer", "verify", "store", "revoke"} => user[a] # None
  /\ pc[a] \in {"idle", "wait", "register", "exchange"} => session[a] = "none"
  /\ pc[a] \in {"answer", "verify", "store"} => session[a] = "live"
  /\ pc[a] \in {"idle", "wait", "register", "exchange", "answer", "verify", "store"} =>
       rotation[a] = 0 /\ failure[a] = "none"
  /\ a \in tokens => pc[a] \in {"verify", "store", "revoke", "cleanup", "ended", "dead"}

\* What is stored of an account: a subject comes with a registration, and tokens with
\* both; the tokens are of a sign-in that is past its own use of them.
AccountInOrder(p) ==
  LET value == file.accounts[p]
  IN /\ value.user # None => value.client # None
     /\ value.token # NoToken =>
          /\ Verified(value)
          /\ value.token.session # None
          /\ \/ pc[value.token.session] \in {"cleanup", "ended", "dead"}
             \/ "save" \in faults /\ pc[value.token.session] = "revoke"

\* A session is stored with one account only.
OneAccountEach ==
  \A p, q \in Profiles :
    /\ file.accounts[p].token # NoToken
    /\ file.accounts[p].token.session = file.accounts[q].token.session
    => p = q

\* While an operation holds the lock, the account is as it found it; and it knows what
\* became of its token at the server.
OpHoldsAccount ==
  /\ op.kind = "none" => op = NoOp
  /\ op.kind # "none" =>
       /\ op.profile # None /\ op.token # NoToken
       /\ op.token = file.accounts[op.profile].token
  /\ op.answer = "renewed" => rotation[op.token.session] = op.token.n + 1
  /\ op.answer = "cleared" => session[op.token.session] = "dead"

StoreInv ==
  /\ TypeOK
  /\ \A a \in Attempts : LoginKnows(a)
  /\ \A p \in Profiles : AccountInOrder(p)
  /\ OneAccountEach /\ OpHoldsAccount
  /\ file.active # None => Verified(file.accounts[file.active])

------------------------------------------------------------------------------
(* What the writes of the store make of it.                                    *)

\* One account is written.
Written(p, value) == [file EXCEPT !.accounts[p] = value]

LEMMA AccountWritten ==
  ASSUME file \in State, NEW p \in Profiles, NEW value \in Account
  PROVE  /\ Written(p, value) \in State
         /\ Written(p, value).accounts[p] = value
         /\ \A q \in Profiles : q # p => Written(p, value).accounts[q] = file.accounts[q]
         /\ Written(p, value).active = file.active
         /\ Written(p, value).pending = file.pending
PROOF
<1> DEFINE new == Written(p, value)
<1>1. new.accounts = [file.accounts EXCEPT ![p] = value]
  BY DEF State, Written
<1>2. file.accounts \in [Profiles -> Account] BY DEF State
<1>3. new.accounts \in [Profiles -> Account] BY <1>1, <1>2
<1>4. new \in State BY <1>1, <1>3 DEF State, Written
<1>5. new.active = file.active /\ new.pending = file.pending BY DEF State, Written
<1> HIDE DEF new
<1> QED BY <1>1, <1>2, <1>4, <1>5 DEF new

LEMMA AccountFields ==
  ASSUME file \in State, NEW p \in Profiles
  PROVE  /\ file.accounts[p] \in Account
         /\ file.accounts[p].client \in Attempts \cup {None}
         /\ file.accounts[p].user \in Users \cup {None}
         /\ file.accounts[p].token \in Tokens
         /\ file.accounts[p].token.session \in Attempts \cup {None}
         /\ file.accounts[p].token.n \in 0 .. MaxRotations
  BY DEF State, Account, Tokens

\* A registration is written.
LEMMA RegisteredFile ==
  ASSUME file \in State, NEW a \in Attempts, profile[a] \in Profiles,
         client[a] \in Attempts \cup {None}
  PROVE  LET new == Registered(a)  p == profile[a]
         IN /\ new \in State
            /\ new.accounts[p].client = client[a]
            /\ new.accounts[p].user = file.accounts[p].user
            /\ new.accounts[p].token = file.accounts[p].token
            /\ \A q \in Profiles : q # p => new.accounts[q] = file.accounts[q]
            /\ new.active = file.active /\ new.pending = file.pending
PROOF
<1> DEFINE value == [file.accounts[profile[a]] EXCEPT !.client = client[a]]
<1>1. Registered(a) = Written(profile[a], value)
  BY DEF Registered, Written, State
<1>2. /\ value \in Account /\ value.client = client[a]
      /\ value.user = file.accounts[profile[a]].user
      /\ value.token = file.accounts[profile[a]].token
  BY AccountFields DEF Account
<1> HIDE DEF value
<1>3. Registered(a) \in State
  BY <1>1, <1>2, AccountWritten
<1>4. /\ Registered(a).accounts[profile[a]] = value
      /\ \A q \in Profiles : q # profile[a] => Registered(a).accounts[q] = file.accounts[q]
      /\ Registered(a).active = file.active /\ Registered(a).pending = file.pending
  BY <1>1, <1>2, AccountWritten
<1> QED BY <1>2, <1>3, <1>4

\* The tokens of a sign-in are written.
LEMMA StoredFile ==
  ASSUME file \in State, NEW a \in Attempts, profile[a] \in Profiles,
         client[a] \in Attempts, user[a] \in Users
  PROVE  LET new == Stored(a)  p == profile[a]
         IN /\ new \in State
            /\ new.accounts[p] = [client |-> client[a], user |-> user[a], token |-> Token(a, 0)]
            /\ \A q \in Profiles : q # p => new.accounts[q] = file.accounts[q]
            /\ new.active = p /\ new.pending = file.pending
PROOF
<1> DEFINE value == [client |-> client[a], user |-> user[a], token |-> Token(a, 0)]
           mid   == Written(profile[a], value)
<1>1. Stored(a) = [mid EXCEPT !.active = profile[a]]
  <2>1. DOMAIN file = {"accounts", "active", "last", "pending", "waiting", "error"}
    BY DEF State
  <2> QED BY <2>1 DEF Stored, Written
<1>2. value \in Account BY DEF Account, Token, Tokens
<1> HIDE DEF value
<1>3. /\ mid \in State /\ mid.accounts[profile[a]] = value
      /\ \A q \in Profiles : q # profile[a] => mid.accounts[q] = file.accounts[q]
      /\ mid.pending = file.pending
  BY <1>2, AccountWritten
<1> HIDE DEF mid
<1>4. /\ Stored(a) \in State /\ Stored(a).accounts = mid.accounts
      /\ Stored(a).active = profile[a] /\ Stored(a).pending = mid.pending
  BY <1>1, <1>3 DEF State
<1> QED BY <1>3, <1>4 DEF value

\* A token is replaced, or taken away.
Retoken(p, token) == [file EXCEPT !.accounts[p].token = token]

LEMMA TokenFile ==
  ASSUME file \in State, NEW p \in Profiles, NEW token \in Tokens
  PROVE  LET new == Retoken(p, token)
         IN /\ new \in State
            /\ new.accounts[p].client = file.accounts[p].client
            /\ new.accounts[p].user = file.accounts[p].user
            /\ new.accounts[p].token = token
            /\ \A q \in Profiles : q # p => new.accounts[q] = file.accounts[q]
            /\ new.active = file.active /\ new.pending = file.pending
PROOF
<1> DEFINE value == [file.accounts[p] EXCEPT !.token = token]
<1>1. Retoken(p, token) = Written(p, value)
  BY DEF State, Written, Retoken
<1>2. /\ value \in Account /\ value.token = token
      /\ value.user = file.accounts[p].user
      /\ value.client = file.accounts[p].client
  BY AccountFields DEF Account
<1> HIDE DEF value
<1> QED BY <1>1, <1>2, AccountWritten

\* The fields beside the accounts are written.
Begun(a, p) == [file EXCEPT !.last = p, !.pending = a, !.waiting = TRUE, !.error = "none"]
Chosen(p)   == [file EXCEPT !.active = p]
Waited      == [file EXCEPT !.waiting = FALSE]

LEMMA BegunFile ==
  ASSUME file \in State, NEW a \in Attempts, NEW p \in Profiles
  PROVE  /\ Begun(a, p) \in State /\ Begun(a, p).accounts = file.accounts
         /\ Begun(a, p).active = file.active /\ Begun(a, p).pending = a
  BY DEF State, Begun

LEMMA CleanedFile ==
  ASSUME file \in State, NEW a \in Attempts, failure[a] \in {"none", "failed", "unconfirmed"}
  PROVE  /\ Cleaned(a) \in State /\ Cleaned(a).accounts = file.accounts
         /\ Cleaned(a).active = file.active /\ Cleaned(a).pending = None
  BY DEF State, Cleaned

LEMMA ChosenFile ==
  ASSUME file \in State, NEW p \in Profiles
  PROVE  /\ Chosen(p) \in State /\ Chosen(p).accounts = file.accounts
         /\ Chosen(p).active = p /\ Chosen(p).pending = file.pending
  BY DEF State, Chosen

LEMMA WaitedFile ==
  ASSUME file \in State
  PROVE  /\ Waited \in State /\ Waited.accounts = file.accounts
         /\ Waited.active = file.active /\ Waited.pending = file.pending
  BY DEF State, Waited

------------------------------------------------------------------------------
(* The invariant of the store and of its users, step by step.                  *)

\* A sign-in does not come back from its end.
Onward ==
  \A a \in Attempts :
    /\ pc[a] \in {"cleanup", "ended", "dead"} => pc'[a] \in {"cleanup", "ended", "dead"}
    /\ pc[a] = "revoke" => pc'[a] \in {"revoke", "cleanup", "ended", "dead"}

\* A step that writes no account leaves them in order.
LEMMA SameAccounts ==
  ASSUME StoreInv, file'.accounts = file.accounts, UNCHANGED faults, Onward
  PROVE  /\ (\A p \in Profiles : AccountInOrder(p))'
         /\ OneAccountEach'
PROOF
<1>1. ASSUME NEW p \in Profiles PROVE AccountInOrder(p)'
  <2>1. file.accounts[p].token.session \in Attempts \cup {None}
    BY AccountFields DEF StoreInv, TypeOK
  <2> QED BY <2>1 DEF StoreInv, AccountInOrder, Verified, Onward, NoToken, Token
<1>2. OneAccountEach'
  BY DEF StoreInv, OneAccountEach, NoToken, Token
<1> QED BY <1>1, <1>2

\* Nor does it disturb the operation that holds the lock, if the server does not change.
LEMMA SameOp ==
  ASSUME StoreInv, file'.accounts = file.accounts, UNCHANGED <<op, server>>
  PROVE  OpHoldsAccount'
  BY DEF StoreInv, OpHoldsAccount, server, NoOp, NoToken, Token

LEMMA StoreInvInit == Init => StoreInv
PROOF
<1> SUFFICES ASSUME Init PROVE StoreInv OBVIOUS
<1> USE DEF Init
<1>1. TypeOK
  BY DEF TypeOK, State, Account, Tokens, Blank, NoOp, Op, NoToken, Token
<1>2. \A a \in Attempts : LoginKnows(a) BY DEF LoginKnows
<1>3. (\A p \in Profiles : AccountInOrder(p)) /\ OneAccountEach
  BY DEF AccountInOrder, OneAccountEach, Blank
<1>4. OpHoldsAccount BY DEF OpHoldsAccount, NoOp, Op, NoToken, Token
<1> QED BY <1>1, <1>2, <1>3, <1>4 DEF StoreInv

LEMMA StartLoginInv ==
  ASSUME StoreInv, NEW a \in Attempts, NEW o \in Owners, NEW newAccount \in BOOLEAN,
         StartLogin(a, o, newAccount)
  PROVE  StoreInv'
PROOF
<1> USE DEF server, login, names
<1>1. PICK p \in Candidates(newAccount) :
        \/ /\ file' = Begun(a, p) /\ Go(a, "wait")
           /\ by' = [by EXCEPT ![a] = o] /\ profile' = [profile EXCEPT ![a] = p]
           /\ client' = [client EXCEPT ![a] = file.accounts[p].client]
        \/ /\ file' \in {file, Begun(a, p)} /\ Fail(a, "ended")
           /\ UNCHANGED <<by, profile, client>>
  BY DEF StartLogin, Saved, SaveFails, Begun
<1>2. p \in Profiles /\ file \in State
  BY DEF Candidates, StoreInv, TypeOK, State
<1>3. Begun(a, p) \in State /\ Begun(a, p).accounts = file.accounts
      /\ Begun(a, p).active = file.active
  BY <1>2, BegunFile
<1>4. file' \in State /\ file'.accounts = file.accounts /\ file'.active = file.active
  BY <1>1, <1>2, <1>3
<1>5. file.accounts[p].client \in Attempts \cup {None} BY <1>2, AccountFields
<1>6. pc[a] = "idle" /\ UNCHANGED <<op, owner, user, tokens, late, server, replaced, faults>>
  BY DEF StartLogin
<1>7. TypeOK'
  BY <1>1, <1>2, <1>4, <1>5, <1>6 DEF StoreInv, TypeOK, Go, Fail, Running
<1>8. \A b \in Attempts : LoginKnows(b)'
  BY <1>1, <1>2, <1>6 DEF StoreInv, TypeOK, LoginKnows, Go, Fail
<1>9. Onward BY <1>1, <1>6 DEF Onward, Go, Fail, StoreInv, TypeOK
<1> QED BY <1>4, <1>6, <1>7, <1>8, <1>9, SameAccounts, SameOp DEF StoreInv

\* The steps of a sign-in that leave the store and the server alone.
QuietStep(a) == Callback(a) \/ Cancelled(a) \/ ExchangeFails(a) \/ Answer(a) \/ Verify(a)

LEMMA QuietStepInv ==
  ASSUME StoreInv, NEW a \in Attempts, QuietStep(a)
  PROVE  StoreInv'
PROOF
<1> USE DEF server, login, names, QuietStep, Go, Fail, GiveTokens
<1>1. UNCHANGED <<file, op, server, faults>>
  BY DEF Callback, Cancelled, ExchangeFails, Answer, Verify
<1>2. TypeOK'
  <2>1. CASE Callback(a) BY <2>1 DEF Callback, Issued, StoreInv, TypeOK, Running
  <2>2. CASE Cancelled(a) \/ ExchangeFails(a)
    BY <2>2 DEF Cancelled, ExchangeFails, StoreInv, TypeOK, Running
  <2>3. CASE Answer(a) BY <2>3 DEF Answer, StoreInv, TypeOK, Running
  <2>4. CASE Verify(a) BY <2>4 DEF Verify, StoreInv, TypeOK, Running
  <2> QED BY <2>1, <2>2, <2>3, <2>4
<1>3. ASSUME NEW b \in Attempts PROVE LoginKnows(b)'
  <2> USE DEF StoreInv, TypeOK, LoginKnows
  <2>1. CASE Callback(a) BY <2>1 DEF Callback, Issued
  <2>2. CASE Cancelled(a) \/ ExchangeFails(a) BY <2>2 DEF Cancelled, ExchangeFails
  <2>3. CASE Answer(a) BY <2>3 DEF Answer
  <2>4. CASE Verify(a) BY <2>4 DEF Verify
  <2> QED BY <2>1, <2>2, <2>3, <2>4
<1>4. Onward
  BY DEF Onward, Callback, Cancelled, ExchangeFails, Answer, Verify, StoreInv, TypeOK
<1> QED BY <1>1, <1>2, <1>3, <1>4, SameAccounts, SameOp DEF StoreInv

\* The session of the operation that holds the lock is stored, so it is not one that a
\* sign-in has just opened.
LEMMA OpSession ==
  ASSUME StoreInv, op.kind # "none"
  PROVE  /\ op.token.session \in Attempts
         /\ pc[op.token.session] \in {"revoke", "cleanup", "ended", "dead"}
         /\ pc[op.token.session] = "revoke" => "save" \in faults
PROOF
<1>1. op.profile \in Profiles BY DEF StoreInv, OpHoldsAccount, TypeOK
<1>2. op.token = file.accounts[op.profile].token /\ op.token # NoToken
  BY DEF StoreInv, OpHoldsAccount
<1>3. op.token.session \in Attempts \cup {None}
  BY <1>1, <1>2, AccountFields DEF StoreInv, TypeOK
<1> QED BY <1>1, <1>2, <1>3 DEF StoreInv, AccountInOrder

LEMMA ExchangeInv ==
  ASSUME StoreInv, NEW a \in Attempts, Exchange(a)
  PROVE  StoreInv'
PROOF
<1> USE DEF server, login, names, Go
<1>1. TypeOK' BY DEF Exchange, StoreInv, TypeOK, Running
<1>2. ASSUME NEW b \in Attempts PROVE LoginKnows(b)'
  BY DEF Exchange, StoreInv, TypeOK, LoginKnows
<1>3. Onward BY DEF Onward, Exchange, StoreInv, TypeOK
<1>4. OpHoldsAccount'
  <2>1. UNCHANGED <<file, op, rotation>> BY DEF Exchange
  <2>2. CASE op.kind = "none"
    BY <2>1, <2>2 DEF StoreInv, OpHoldsAccount, NoOp, Op, NoToken, Token
  <2>3. CASE op.kind # "none"
    <3>1. op.token.session \in Attempts /\ op.token.session # a
      BY <2>3, OpSession DEF Exchange
    <3>2. session'[op.token.session] = session[op.token.session]
      BY <3>1 DEF Exchange, StoreInv, TypeOK
    <3> QED BY <2>1, <3>2 DEF StoreInv, OpHoldsAccount, NoOp, NoToken, Token
  <2> QED BY <2>2, <2>3
<1> QED BY <1>1, <1>2, <1>3, <1>4, SameAccounts DEF StoreInv, Exchange

LEMMA RevokeInv ==
  ASSUME StoreInv, NEW a \in Attempts, Revoke(a)
  PROVE  StoreInv'
PROOF
<1> USE DEF server, login, names
<1>1. TypeOK' BY DEF Revoke, StoreInv, TypeOK, Running
<1>2. ASSUME NEW b \in Attempts PROVE LoginKnows(b)'
  BY DEF Revoke, StoreInv, TypeOK, LoginKnows
<1>3. Onward BY DEF Onward, Revoke, StoreInv, TypeOK
<1>4. OpHoldsAccount'
  <2>1. UNCHANGED <<file, op, rotation>> BY DEF Revoke
  <2>2. \A b \in Attempts : session[b] = "dead" => session'[b] = "dead"
    BY DEF Revoke, StoreInv, TypeOK
  <2>3. op.answer = "cleared" => op.token.session \in Attempts
    BY OpSession DEF StoreInv, OpHoldsAccount, NoOp, Op
  <2> QED BY <2>1, <2>2, <2>3 DEF StoreInv, OpHoldsAccount, NoOp, NoToken, Token
<1> QED BY <1>1, <1>2, <1>3, <1>4, SameAccounts DEF StoreInv, Revoke

LEMMA CleanupInv ==
  ASSUME StoreInv, NEW a \in Attempts, Cleanup(a)
  PROVE  StoreInv'
PROOF
<1> USE DEF server, login, names, Go
<1>1. file' \in {file, Cleaned(a)} BY DEF Cleanup, Saved, SaveFails
<1>2. file \in State /\ failure[a] \in {"none", "failed", "unconfirmed"}
  BY DEF StoreInv, TypeOK
<1>3. file' \in State /\ file'.accounts = file.accounts /\ file'.active = file.active
  BY <1>1, <1>2, CleanedFile
<1>4. TypeOK' BY <1>3 DEF Cleanup, StoreInv, TypeOK, Running
<1>5. ASSUME NEW b \in Attempts PROVE LoginKnows(b)'
  BY DEF Cleanup, StoreInv, TypeOK, LoginKnows
<1>6. Onward BY DEF Onward, Cleanup, StoreInv, TypeOK
<1> QED BY <1>3, <1>4, <1>5, <1>6, SameAccounts, SameOp DEF StoreInv, Cleanup

\* Whoever writes an account has the lock to himself.
LEMMA FreeOp ==
  ASSUME StoreInv, LockFree, op' = op
  PROVE  OpHoldsAccount'
  BY DEF LockFree, OpHoldsAccount, NoOp, Op, NoToken, Token

LEMMA RegisterInv ==
  ASSUME StoreInv, NEW a \in Attempts, Register(a)
  PROVE  StoreInv'
PROOF
<1> USE DEF server, login, names, Go, Fail
<1>1. /\ file \in State /\ profile[a] \in Profiles /\ client[a] \in Attempts
      /\ pc[a] = "register"
  BY DEF Register, StoreInv, TypeOK, LoginKnows
<1>2. /\ pc' \in {[pc EXCEPT ![a] = "exchange"], [pc EXCEPT ![a] = "cleanup"]}
      /\ UNCHANGED <<op, owner, names, tokens, late, server, replaced, faults>>
  BY DEF Register
<1>3. LoginKnows(a)' /\ \A b \in Attempts : LoginKnows(b)'
  BY DEF Register, StoreInv, TypeOK, LoginKnows
<1>4. Onward BY <1>1, <1>2 DEF Onward, StoreInv, TypeOK
<1>5. CASE file' = file
  <2>1. TypeOK' BY <1>5 DEF Register, StoreInv, TypeOK, Running
  <2> QED BY <1>2, <1>3, <1>4, <1>5, <2>1, SameAccounts, SameOp DEF StoreInv
<1>6. CASE file' # file
  <2>1. file' = Registered(a) /\ LockFree
    BY <1>6 DEF Register, Saved, SaveFails
  <2> DEFINE p == profile[a]
  <2>2. /\ file' \in State
        /\ file'.accounts[p].client = client[a]
        /\ file'.accounts[p].user = file.accounts[p].user
        /\ file'.accounts[p].token = file.accounts[p].token
        /\ \A q \in Profiles : q # p => file'.accounts[q] = file.accounts[q]
        /\ file'.active = file.active
    BY <1>1, <2>1, RegisteredFile
  <2>3. TypeOK' BY <2>2 DEF Register, StoreInv, TypeOK, Running
  <2>4. \A q \in Profiles :
          /\ file'.accounts[q].token = file.accounts[q].token
          /\ file'.accounts[q].user = file.accounts[q].user
          /\ file.accounts[q].client # None => file'.accounts[q].client # None
    BY <1>1, <2>2
  <2>5. ASSUME NEW q \in Profiles PROVE AccountInOrder(q)'
    <3>1. file.accounts[q].token.session \in Attempts \cup {None}
      BY <1>1, AccountFields
    <3>2. file'.accounts[p].client # None BY <1>1, <2>2
    <3> QED BY <1>2, <1>4, <2>2, <2>4, <3>1, <3>2
        DEF StoreInv, AccountInOrder, Verified, Onward, NoToken, Token
  <2>6. OneAccountEach' BY <2>4 DEF StoreInv, OneAccountEach, NoToken, Token
  <2>7. (file.active # None => Verified(file.accounts[file.active]))'
    BY <2>2, <2>4 DEF StoreInv, Verified, TypeOK, State
  <2>8. OpHoldsAccount' BY <1>2, <2>1, FreeOp
  <2> QED BY <1>3, <2>3, <2>5, <2>6, <2>7, <2>8 DEF StoreInv
<1> QED BY <1>5, <1>6

LEMMA StoreStepInv ==
  ASSUME StoreInv, NEW a \in Attempts, Store(a)
  PROVE  StoreInv'
PROOF
<1> USE DEF server, login, names, Go, Fail, GiveTokens
<1>1. /\ file \in State /\ profile[a] \in Profiles /\ client[a] \in Attempts
      /\ user[a] \in Users /\ pc[a] = "store"
  BY DEF Store, StoreInv, TypeOK, LoginKnows
<1>2. /\ pc' \in {[pc EXCEPT ![a] = "revoke"], [pc EXCEPT ![a] = "cleanup"]}
      /\ UNCHANGED <<op, owner, names, tokens, late, server, faults>>
  BY DEF Store
<1>3. \A b \in Attempts : LoginKnows(b)'
  BY DEF Store, StoreInv, TypeOK, LoginKnows
<1>4. Onward BY <1>1, <1>2 DEF Onward, StoreInv, TypeOK
<1>5. failure' \in [Attempts -> {"none", "failed", "unconfirmed"}]
  BY DEF Store, StoreInv, TypeOK
<1>6. replaced' \subseteq Attempts
  <2>1. file.accounts[profile[a]].token.session \in Attempts \cup {None}
    BY <1>1, AccountFields
  <2> QED BY <2>1 DEF Store, StoreInv, TypeOK
<1>7. CASE file' = file
  <2>1. TypeOK' BY <1>2, <1>5, <1>6, <1>7 DEF StoreInv, TypeOK, Running
  <2> QED BY <1>2, <1>3, <1>4, <1>7, <2>1, SameAccounts, SameOp DEF StoreInv
<1>8. CASE file' # file
  <2>1. file' = Stored(a) /\ LockFree
    BY <1>8 DEF Store, Saved, SaveFails
  <2> DEFINE p == profile[a]
  <2>2. /\ file' \in State
        /\ file'.accounts[p] = [client |-> client[a], user |-> user[a], token |-> Token(a, 0)]
        /\ \A q \in Profiles : q # p => file'.accounts[q] = file.accounts[q]
        /\ file'.active = p
    BY <1>1, <2>1, StoredFile
  <2>3. TypeOK' BY <1>2, <1>5, <1>6, <2>2 DEF StoreInv, TypeOK, Running
  <2>4. pc'[a] = "cleanup" \/ ("save" \in faults /\ pc'[a] = "revoke")
    BY <1>1, <1>8 DEF Store, SaveFails, StoreInv, TypeOK
  <2>5. ASSUME NEW q \in Profiles PROVE AccountInOrder(q)'
    <3>1. CASE q = p
      BY <1>1, <1>2, <2>2, <2>4, <3>1 DEF AccountInOrder, Verified, Token
    <3>2. CASE q # p
      <4>1. file.accounts[q].token.session \in Attempts \cup {None}
        BY <1>1, AccountFields
      <4> QED BY <1>2, <1>4, <2>2, <3>2, <4>1
          DEF StoreInv, AccountInOrder, Verified, Onward, NoToken, Token
    <3> QED BY <3>1, <3>2
  <2>6. \A q \in Profiles : file.accounts[q].token # NoToken =>
          file.accounts[q].token.session # a
    BY <1>1 DEF StoreInv, AccountInOrder
  <2>7. OneAccountEach'
    <3>1. file'.accounts[p].token.session = a /\ file'.accounts[p].token # NoToken
      BY <1>1, <2>2 DEF Token, NoToken
    <3>2. \A q \in Profiles : q # p => file'.accounts[q].token.session # a
      BY <1>1, <2>2, <2>6 DEF NoToken, Token
    <3>3. ASSUME NEW q \in Profiles, NEW r \in Profiles,
                 file'.accounts[q].token # NoToken,
                 file'.accounts[q].token.session = file'.accounts[r].token.session
          PROVE  q = r
      BY <2>2, <3>1, <3>2, <3>3 DEF StoreInv, OneAccountEach, NoToken, Token
    <3> QED BY <3>3 DEF OneAccountEach, NoToken, Token
  <2>8. (file.active # None => Verified(file.accounts[file.active]))'
    BY <1>1, <2>2 DEF Verified
  <2>9. OpHoldsAccount' BY <1>2, <2>1, FreeOp
  <2> QED BY <1>3, <2>3, <2>5, <2>7, <2>8, <2>9 DEF StoreInv
<1> QED BY <1>7, <1>8

\* An operation takes the lock.
LEMMA BeginInv ==
  ASSUME StoreInv, NEW o \in Owners, BeginRenewal(o) \/ BeginDisconnect(o)
  PROVE  StoreInv'
PROOF
<1> USE DEF server, login, names
<1>1. PICK kind \in {"renew", "disconnect"} :
        op' = Op(kind, o, file.active, file.accounts[file.active].token)
  BY DEF BeginRenewal, BeginDisconnect
<1>2. /\ UNCHANGED <<file, owner, login, server, replaced, faults>>
      /\ file.active \in Profiles /\ file.accounts[file.active].token # NoToken
  BY DEF BeginRenewal, BeginDisconnect, Connected, StoreInv, TypeOK, State
<1>3. file.accounts[file.active].token \in Tokens
  BY <1>2, AccountFields DEF StoreInv, TypeOK
<1>4. TypeOK' BY <1>1, <1>2, <1>3 DEF StoreInv, TypeOK, Op
<1>5. OpHoldsAccount' BY <1>1, <1>2 DEF OpHoldsAccount, Op, NoToken, Token
<1>6. Onward BY <1>2 DEF Onward
<1>7. \A a \in Attempts : LoginKnows(a)' BY <1>2 DEF StoreInv, LoginKnows
<1> QED BY <1>2, <1>4, <1>5, <1>6, <1>7, SameAccounts DEF StoreInv

\* The server answers it, or does not.
LEMMA AnsweredInv ==
  ASSUME StoreInv, Rotate \/ EndSession \/ RevokeSession \/ Unavailable
  PROVE  StoreInv'
PROOF
<1> USE DEF server, login, names
<1> DEFINE t == op.token
<1>1. PICK answer \in {"renewed", "cleared", "failed"} :
        /\ op' = [op EXCEPT !.answer = answer]
        /\ \/ /\ answer # "cleared" /\ t.n < MaxRotations
              /\ rotation[t.session] = t.n
              /\ rotation' = [rotation EXCEPT ![t.session] = @ + 1] /\ UNCHANGED session
           \/ /\ answer # "renewed"
              /\ session' = [session EXCEPT ![t.session] = "dead"] /\ UNCHANGED rotation
           \/ answer = "failed" /\ UNCHANGED server
  BY DEF Rotate, EndSession, RevokeSession, Unavailable, Answered, Lossy, Current
<1>2. /\ UNCHANGED <<file, owner, login, replaced, faults>>
      /\ op.kind # "none" /\ op.answer = "none"
  BY DEF Rotate, EndSession, RevokeSession, Unavailable, Answered
<1>3. t.session \in Attempts /\ pc[t.session] \in {"revoke", "cleanup", "ended", "dead"}
  BY <1>2, OpSession
<1>4. op \in [kind : {"none", "renew", "disconnect"}, owner : Owners \cup {None},
              profile : Profiles \cup {None}, token : Tokens,
              answer : {"none", "renewed", "cleared", "failed"}]
      /\ session \in [Attempts -> {"none", "live", "dead"}]
      /\ rotation \in [Attempts -> 0 .. MaxRotations]
      /\ t.n \in 0 .. MaxRotations
  BY DEF StoreInv, TypeOK, Tokens
<1>5. /\ op' \in [kind : {"none", "renew", "disconnect"}, owner : Owners \cup {None},
                  profile : Profiles \cup {None}, token : Tokens,
                  answer : {"none", "renewed", "cleared", "failed"}]
      /\ op'.kind = op.kind /\ op'.profile = op.profile /\ op'.token = t
      /\ op'.answer = answer
  BY <1>1, <1>4
<1>6. rotation' \in [Attempts -> 0 .. MaxRotations]
  BY <1>1, <1>3, <1>4
<1>7. session' \in [Attempts -> {"none", "live", "dead"}]
  BY <1>1, <1>3, <1>4
<1>8. TypeOK' BY <1>2, <1>5, <1>6, <1>7 DEF StoreInv, TypeOK
<1>9. answer = "renewed" => rotation'[t.session] = t.n + 1
  BY <1>1, <1>3, <1>4
<1>10. answer = "cleared" => session'[t.session] = "dead"
  BY <1>1, <1>3, <1>4
<1>11. OpHoldsAccount'
  BY <1>2, <1>5, <1>9, <1>10 DEF StoreInv, OpHoldsAccount, NoToken, Token
<1>12. Onward BY <1>2 DEF Onward
<1>13. ASSUME NEW a \in Attempts PROVE LoginKnows(a)'
  <2>1. a # t.session => session'[a] = session[a] /\ rotation'[a] = rotation[a]
    BY <1>1, <1>3, <1>4
  <2> QED BY <1>2, <1>3, <2>1 DEF StoreInv, LoginKnows
<1> QED BY <1>2, <1>8, <1>11, <1>12, <1>13, SameAccounts DEF StoreInv

\* And it writes what became of the token.
LEMMA FinishInv ==
  ASSUME StoreInv, Finish
  PROVE  StoreInv'
PROOF
<1> USE DEF server, login, names
<1>1. op' = NoOp /\ UNCHANGED <<owner, login, server, replaced, faults>> /\ op.answer # "none"
  BY DEF Finish
<1>2. OpHoldsAccount' BY <1>1 DEF OpHoldsAccount, NoOp, Op, NoToken, Token
<1>3. Onward /\ \A a \in Attempts : LoginKnows(a)'
  BY <1>1 DEF Onward, StoreInv, LoginKnows
<1>4. NoOp \in [kind : {"none", "renew", "disconnect"}, owner : Owners \cup {None},
                profile : Profiles \cup {None}, token : Tokens,
                answer : {"none", "renewed", "cleared", "failed"}]
  BY DEF NoOp, Op, NoToken, Token, Tokens
<1>5. CASE file' = file
  <2>1. TypeOK' BY <1>1, <1>4, <1>5 DEF StoreInv, TypeOK
  <2> QED BY <1>1, <1>2, <1>3, <1>5, <2>1, SameAccounts DEF StoreInv
<1>6. CASE file' # file
  <2> DEFINE p == op.profile  t == op.token
  <2>1. file' = Retoken(p, NewToken(p))
    BY <1>1, <1>6 DEF Finish, Saved, SaveFails, Retoken
  <2>2. /\ file \in State /\ p \in Profiles /\ op.kind # "none"
        /\ file.accounts[p].token = t /\ t # NoToken
    BY <1>1 DEF StoreInv, OpHoldsAccount, TypeOK, NoOp, Op
  <2>3. t.session \in Attempts /\ t.n \in 0 .. MaxRotations
    BY <2>2, OpSession, AccountFields
  <2>4. NewToken(p) = NoToken \/ (NewToken(p) = Token(t.session, t.n + 1) /\ t.n < MaxRotations)
    <3>1. op.answer = "renewed" => rotation[t.session] = t.n + 1
      BY DEF StoreInv, OpHoldsAccount
    <3>2. rotation[t.session] \in 0 .. MaxRotations BY <2>3 DEF StoreInv, TypeOK
    <3> QED BY <2>3, <3>1, <3>2 DEF NewToken
  <2>5. NewToken(p) \in Tokens /\ NewToken(p).session \in {None, t.session}
        /\ (NewToken(p) # NoToken => NewToken(p).session = t.session)
    BY <2>3, <2>4 DEF NoToken, Token, Tokens
  <2>6. /\ file' \in State
        /\ file'.accounts[p].client = file.accounts[p].client
        /\ file'.accounts[p].user = file.accounts[p].user
        /\ file'.accounts[p].token = NewToken(p)
        /\ \A q \in Profiles : q # p => file'.accounts[q] = file.accounts[q]
        /\ file'.active = file.active
    BY <2>1, <2>2, <2>5, TokenFile
  <2> HIDE DEF p, t
  <2>7. TypeOK' BY <1>1, <1>4, <2>6 DEF StoreInv, TypeOK
  <2>8. ASSUME NEW q \in Profiles PROVE AccountInOrder(q)'
    <3>1. CASE q = p
      BY <1>1, <2>2, <2>5, <2>6, <3>1 DEF StoreInv, AccountInOrder, Verified, NoToken, Token
    <3>2. CASE q # p
      BY <1>1, <2>6, <3>2 DEF StoreInv, AccountInOrder, Verified, NoToken, Token
    <3> QED BY <3>1, <3>2
  <2>9. \A q \in Profiles :
          file'.accounts[q].token # NoToken =>
            /\ file.accounts[q].token # NoToken
            /\ file'.accounts[q].token.session = file.accounts[q].token.session
    BY <2>2, <2>5, <2>6
  <2>10. ASSUME NEW q \in Profiles, NEW r \in Profiles,
                file'.accounts[q].token # NoToken,
                file'.accounts[q].token.session = file'.accounts[r].token.session
         PROVE  q = r
    <3>1. file'.accounts[q].token.session # None
      BY <2>8, <2>10 DEF AccountInOrder, NoToken, Token
    <3>2. file'.accounts[r].token # NoToken BY <2>10, <3>1 DEF NoToken, Token
    <3> QED BY <2>9, <2>10, <3>2 DEF StoreInv, OneAccountEach
  <2>11. OneAccountEach' BY <2>10 DEF OneAccountEach, NoToken, Token
  <2>12. (file.active # None => Verified(file.accounts[file.active]))'
    BY <2>6 DEF StoreInv, Verified, TypeOK, State
  <2> QED BY <1>2, <1>3, <2>7, <2>8, <2>11, <2>12 DEF StoreInv
<1> QED BY <1>5, <1>6

LEMMA SelectInv ==
  ASSUME StoreInv, NEW o \in Owners, NEW p \in Profiles, Select(o, p)
  PROVE  StoreInv'
PROOF
<1> USE DEF server, login, names
<1>1. /\ UNCHANGED <<op, owner, login, server, replaced, faults>>
      /\ file' \in {file, Chosen(p)}
  BY DEF Select, Saved, SaveFails, Chosen
<1>2. file \in State BY DEF StoreInv, TypeOK
<1>3. file' \in State /\ file'.accounts = file.accounts /\ file'.active \in {file.active, p}
  BY <1>1, <1>2, ChosenFile
<1>4. Verified(file.accounts[p]) BY DEF Select, StoreInv, AccountInOrder, Verified
<1>5. TypeOK' BY <1>1, <1>3 DEF StoreInv, TypeOK
<1>6. Onward /\ \A a \in Attempts : LoginKnows(a)'
  BY <1>1 DEF Onward, StoreInv, LoginKnows
<1>7. (file.active # None => Verified(file.accounts[file.active]))'
  BY <1>3, <1>4 DEF StoreInv, Verified
<1> QED BY <1>1, <1>3, <1>5, <1>6, <1>7, SameAccounts, SameOp DEF StoreInv

\* Close, crashes and time.
LEMMA SurroundingsInv ==
  ASSUME StoreInv,
         \/ PendingExpires \/ \E a \in Attempts : LoginTimesOut(a)
         \/ \E o \in Owners : Close(o) \/ CloseReturns(o) \/ Crash(o)
  PROVE  StoreInv'
PROOF
<1> USE DEF server, login, names
<1>1. CASE PendingExpires
  <2>1. file' = Waited /\ UNCHANGED <<op, owner, login, server, replaced, faults>>
    BY <1>1 DEF PendingExpires, Waited
  <2>2. file' \in State /\ file'.accounts = file.accounts /\ file'.active = file.active
    BY <2>1, WaitedFile DEF StoreInv, TypeOK
  <2>3. TypeOK' BY <2>1, <2>2 DEF StoreInv, TypeOK
  <2>4. Onward /\ \A a \in Attempts : LoginKnows(a)'
    BY <2>1 DEF Onward, StoreInv, LoginKnows
  <2> QED BY <2>1, <2>2, <2>3, <2>4, SameAccounts, SameOp DEF StoreInv
<1>2. ASSUME NEW a \in Attempts, LoginTimesOut(a) PROVE StoreInv'
  <2>1. TypeOK' BY <1>2 DEF LoginTimesOut, StoreInv, TypeOK
  <2>2. Onward /\ \A b \in Attempts : LoginKnows(b)'
    BY <1>2 DEF LoginTimesOut, Onward, StoreInv, LoginKnows
  <2> QED BY <1>2, <2>1, <2>2, SameAccounts, SameOp DEF StoreInv, LoginTimesOut
<1>3. ASSUME NEW o \in Owners, Close(o) \/ CloseReturns(o) PROVE StoreInv'
  <2>1. TypeOK' BY <1>3 DEF Close, CloseReturns, StoreInv, TypeOK
  <2>2. Onward /\ \A b \in Attempts : LoginKnows(b)'
    BY <1>3 DEF Close, CloseReturns, Onward, StoreInv, LoginKnows
  <2> QED BY <1>3, <2>1, <2>2, SameAccounts, SameOp DEF StoreInv, Close, CloseReturns
<1>4. ASSUME NEW o \in Owners, Crash(o) PROVE StoreInv'
  <2>1. /\ UNCHANGED <<file, names, tokens, failure, late, server, replaced, faults>>
        /\ op' \in {op, NoOp}
        /\ \A a \in Attempts : pc'[a] = pc[a] \/ (pc[a] \in Running /\ pc'[a] = "dead")
        /\ pc' \in [Attempts -> {"idle", "ended", "dead"} \cup Running]
    BY <1>4 DEF Crash, Logins, StoreInv, TypeOK
  <2>2. owner' \in [Owners -> {"open", "closing", "closed", "dead"}]
    BY <1>4 DEF Crash, StoreInv, TypeOK
  <2>3. TypeOK'
    BY <2>1, <2>2 DEF StoreInv, TypeOK, NoOp, Op, NoToken, Token, Tokens
  <2>4. ASSUME NEW a \in Attempts PROVE LoginKnows(a)'
    BY <2>1 DEF StoreInv, LoginKnows, Running
  <2>5. Onward BY <2>1 DEF Onward, Running
  <2>6. OpHoldsAccount'
    <3>1. CASE op' = op BY <2>1, <3>1, SameOp
    <3>2. CASE op' = NoOp BY <3>2 DEF OpHoldsAccount, NoOp, Op, NoToken, Token
    <3> QED BY <2>1, <3>1, <3>2
  <2> QED BY <2>1, <2>3, <2>4, <2>5, <2>6, SameAccounts DEF StoreInv
<1> QED BY <1>1, <1>2, <1>3, <1>4

LEMMA StoreInvStep == StoreInv /\ [Next]_vars => StoreInv'
PROOF
<1> SUFFICES ASSUME StoreInv, [Next]_vars PROVE StoreInv' OBVIOUS
<1>1. CASE UNCHANGED vars
  <2> USE <1>1 DEF vars, login, names, server
  <2>1. TypeOK' BY DEF StoreInv, TypeOK
  <2>2. Onward /\ \A b \in Attempts : LoginKnows(b)'
    BY DEF Onward, StoreInv, LoginKnows
  <2> QED BY <2>1, <2>2, SameAccounts, SameOp DEF StoreInv
<1>2. ASSUME NEW a \in Attempts, LoginStep(a) PROVE StoreInv'
  BY <1>2, QuietStepInv, RegisterInv, ExchangeInv, StoreStepInv, RevokeInv, CleanupInv
  DEF LoginStep, QuietStep
<1>3. CASE OpStep
  BY <1>3, AnsweredInv, FinishInv DEF OpStep
<1> QED BY <1>1, <1>2, <1>3, StartLoginInv, BeginInv, SelectInv, SurroundingsInv DEF Next

LEMMA StoreInvariance == Spec => []StoreInv
  BY StoreInvInit, StoreInvStep, PTL DEF Spec

------------------------------------------------------------------------------
(* What a step does to the accounts.                                           *)

\* Every step leaves the accounts alone, or registers one for the pending sign-in, or
\* stores the tokens of the pending sign-in, or replaces one token.
LEMMA AccountsStep ==
  ASSUME StoreInv, [Next]_vars
  PROVE  \/ file'.accounts = file.accounts
         \/ \E a \in Attempts :
              /\ Register(a) /\ Pending(a)
              /\ file'.accounts[profile[a]].client = client[a]
              /\ file'.accounts[profile[a]].user = file.accounts[profile[a]].user
              /\ file'.accounts[profile[a]].token = file.accounts[profile[a]].token
              /\ \A q \in Profiles : q # profile[a] => file'.accounts[q] = file.accounts[q]
         \/ \E a \in Attempts :
              /\ Store(a) /\ Storable(a) /\ file' # file
              /\ file'.accounts[profile[a]] =
                   [client |-> client[a], user |-> user[a], token |-> Token(a, 0)]
              /\ \A q \in Profiles : q # profile[a] => file'.accounts[q] = file.accounts[q]
         \/ /\ Finish /\ op.answer # "failed"
            /\ file'.accounts[op.profile].client = file.accounts[op.profile].client
            /\ file'.accounts[op.profile].user = file.accounts[op.profile].user
            /\ file'.accounts[op.profile].token = NewToken(op.profile)
            /\ \A q \in Profiles : q # op.profile => file'.accounts[q] = file.accounts[q]
PROOF
<1> USE DEF server, login, names
<1>1. file \in State BY DEF StoreInv, TypeOK
<1>2. ASSUME NEW a \in Attempts, NEW o \in Owners, NEW newAccount \in BOOLEAN,
             StartLogin(a, o, newAccount)
      PROVE  file'.accounts = file.accounts
  <2>1. PICK p \in Candidates(newAccount) : file' \in {file, Begun(a, p)}
    BY <1>2 DEF StartLogin, Saved, SaveFails, Begun
  <2>2. p \in Profiles BY <1>1, <1>2 DEF Candidates, State
  <2> QED BY <1>1, <2>1, <2>2, BegunFile
<1>3. ASSUME NEW a \in Attempts, QuietStep(a) \/ Exchange(a) \/ Revoke(a) \/ LoginTimesOut(a)
      PROVE  file' = file
  BY <1>3 DEF QuietStep, Callback, Cancelled, ExchangeFails, Answer, Verify, Exchange, Revoke,
              LoginTimesOut
<1>4. ASSUME NEW a \in Attempts, Cleanup(a)
      PROVE  file'.accounts = file.accounts
  <2>1. file' \in {file, Cleaned(a)} BY <1>4 DEF Cleanup, Saved, SaveFails
  <2>2. failure[a] \in {"none", "failed", "unconfirmed"} BY DEF StoreInv, TypeOK
  <2> QED BY <1>1, <2>1, <2>2, CleanedFile
<1>5. ASSUME NEW a \in Attempts, Register(a), file' # file
      PROVE  /\ Register(a) /\ Pending(a)
             /\ file'.accounts[profile[a]].client = client[a]
             /\ file'.accounts[profile[a]].user = file.accounts[profile[a]].user
             /\ file'.accounts[profile[a]].token = file.accounts[profile[a]].token
             /\ \A q \in Profiles : q # profile[a] => file'.accounts[q] = file.accounts[q]
  <2>1. file' = Registered(a) /\ Pending(a)
    BY <1>5 DEF Register, Saved, SaveFails
  <2>2. profile[a] \in Profiles /\ client[a] \in Attempts
    BY <1>5 DEF Register, StoreInv, TypeOK, LoginKnows
  <2> QED BY <1>1, <1>5, <2>1, <2>2, RegisteredFile
<1>6. ASSUME NEW a \in Attempts, Store(a), file' # file
      PROVE  /\ Store(a) /\ Storable(a)
             /\ file'.accounts[profile[a]] =
                  [client |-> client[a], user |-> user[a], token |-> Token(a, 0)]
             /\ \A q \in Profiles : q # profile[a] => file'.accounts[q] = file.accounts[q]
  <2>1. file' = Stored(a) /\ Storable(a)
    BY <1>6 DEF Store, Saved, SaveFails
  <2>2. profile[a] \in Profiles /\ client[a] \in Attempts /\ user[a] \in Users
    BY <1>6 DEF Store, StoreInv, TypeOK, LoginKnows
  <2> QED BY <1>1, <1>6, <2>1, <2>2, StoredFile
<1>7. ASSUME Finish, file' # file
      PROVE  /\ Finish /\ op.answer # "failed"
             /\ file'.accounts[op.profile].client = file.accounts[op.profile].client
             /\ file'.accounts[op.profile].user = file.accounts[op.profile].user
             /\ file'.accounts[op.profile].token = NewToken(op.profile)
             /\ \A q \in Profiles : q # op.profile => file'.accounts[q] = file.accounts[q]
  <2>1. file' = Retoken(op.profile, NewToken(op.profile)) /\ op.answer # "failed"
    BY <1>7 DEF Finish, Saved, SaveFails, Retoken
  <2>2. op.profile \in Profiles /\ op.kind # "none" /\ op.token \in Tokens
    BY <1>7 DEF Finish, StoreInv, OpHoldsAccount, TypeOK, NoOp, Op
  <2>3. NewToken(op.profile) \in Tokens
    <3>1. op.token.session \in Attempts /\ op.token.n \in 0 .. MaxRotations
      BY <2>2, OpSession DEF Tokens
    <3>2. op.answer = "renewed" => rotation[op.token.session] = op.token.n + 1
      BY DEF StoreInv, OpHoldsAccount
    <3>3. rotation[op.token.session] \in 0 .. MaxRotations BY <3>1 DEF StoreInv, TypeOK
    <3> QED BY <3>1, <3>2, <3>3 DEF NewToken, Token, NoToken, Tokens
  <2> QED BY <1>1, <1>7, <2>1, <2>2, <2>3, TokenFile
<1>8. ASSUME NEW o \in Owners,
             \/ BeginRenewal(o) \/ BeginDisconnect(o) \/ Close(o) \/ CloseReturns(o) \/ Crash(o)
      PROVE  file' = file
  BY <1>8 DEF BeginRenewal, BeginDisconnect, Close, CloseReturns, Crash
<1>9. ASSUME NEW o \in Owners, NEW p \in Profiles, Select(o, p)
      PROVE  file'.accounts = file.accounts
  BY <1>1, <1>9, ChosenFile DEF Select, Saved, SaveFails, Chosen
<1>10. ASSUME Rotate \/ EndSession \/ RevokeSession \/ Unavailable
       PROVE  file' = file
  BY <1>10 DEF Rotate, EndSession, RevokeSession, Unavailable, Answered
<1>11. ASSUME PendingExpires PROVE file'.accounts = file.accounts
  BY <1>1, <1>11, WaitedFile DEF PendingExpires, Waited
<1>12. ASSUME NEW a \in Attempts, LoginStep(a), file'.accounts # file.accounts
       PROVE  Register(a) \/ Store(a)
  BY <1>3, <1>4, <1>12 DEF LoginStep, QuietStep
<1>13. CASE UNCHANGED vars BY <1>13 DEF vars
<1>14. CASE file' = file BY <1>14
<1>15. CASE Next /\ file' # file
  BY <1>2, <1>3, <1>5, <1>6, <1>7, <1>8, <1>9, <1>10, <1>11, <1>12, <1>15 DEF Next, OpStep
<1> QED BY <1>13, <1>14, <1>15

------------------------------------------------------------------------------
(* The pending sign-in knows the registration of its account.                  *)

\* Which sign-in is pending changes with StartLogin and with Cleanup only.
LEMMA PendingStep ==
  ASSUME StoreInv, [Next]_vars
  PROVE  \/ file'.pending = file.pending
         \/ \E a \in Attempts, o \in Owners, new \in BOOLEAN, p \in Profiles :
              StartLogin(a, o, new) /\ file' = Begun(a, p) /\ file'.pending = a
              /\ (pc'[a] = "wait" => profile'[a] = p /\ client'[a] = file.accounts[p].client)
         \/ \E a \in Attempts : Cleanup(a) /\ file'.pending = None
PROOF
<1> USE DEF server, login, names
<1>1. file \in State BY DEF StoreInv, TypeOK
<1>2. ASSUME NEW a \in Attempts, NEW o \in Owners, NEW new \in BOOLEAN,
             StartLogin(a, o, new), file' # file
      PROVE  \E p \in Profiles :
               /\ file' = Begun(a, p) /\ file'.pending = a
               /\ (pc'[a] = "wait" => profile'[a] = p /\ client'[a] = file.accounts[p].client)
  <2>1. PICK p \in Candidates(new) :
          /\ file' = Begun(a, p)
          /\ \/ /\ profile' = [profile EXCEPT ![a] = p]
                /\ client' = [client EXCEPT ![a] = file.accounts[p].client]
             \/ pc' = [pc EXCEPT ![a] = "ended"]
    BY <1>2 DEF StartLogin, Saved, SaveFails, Begun, Fail, Go
  <2>2. p \in Profiles BY <1>1, <1>2 DEF Candidates, State
  <2>3. file'.pending = a BY <1>1, <2>1, <2>2, BegunFile
  <2>4. pc'[a] = "wait" => profile'[a] = p /\ client'[a] = file.accounts[p].client
    BY <2>1 DEF StoreInv, TypeOK
  <2> QED BY <2>1, <2>2, <2>3, <2>4
<1>3. ASSUME NEW a \in Attempts, QuietStep(a) \/ Exchange(a) \/ Revoke(a) \/ LoginTimesOut(a)
      PROVE  file' = file
  BY <1>3 DEF QuietStep, Callback, Cancelled, ExchangeFails, Answer, Verify, Exchange, Revoke,
              LoginTimesOut
<1>4. ASSUME NEW a \in Attempts, Cleanup(a), file' # file
      PROVE  file'.pending = None
  <2>1. file' = Cleaned(a) BY <1>4 DEF Cleanup, Saved, SaveFails
  <2>2. failure[a] \in {"none", "failed", "unconfirmed"} BY DEF StoreInv, TypeOK
  <2> QED BY <1>1, <2>1, <2>2, CleanedFile
<1>5. ASSUME NEW a \in Attempts, Register(a), file' # file
      PROVE  file'.pending = file.pending
  <2>1. file' = Registered(a) BY <1>5 DEF Register, Saved, SaveFails
  <2>2. profile[a] \in Profiles /\ client[a] \in Attempts
    BY <1>5 DEF Register, StoreInv, TypeOK, LoginKnows
  <2> QED BY <1>1, <2>1, <2>2, RegisteredFile
<1>6. ASSUME NEW a \in Attempts, Store(a), file' # file
      PROVE  file'.pending = file.pending
  <2>1. file' = Stored(a) BY <1>6 DEF Store, Saved, SaveFails
  <2>2. profile[a] \in Profiles /\ client[a] \in Attempts /\ user[a] \in Users
    BY <1>6 DEF Store, StoreInv, TypeOK, LoginKnows
  <2> QED BY <1>1, <2>1, <2>2, StoredFile
<1>7. ASSUME Finish, file' # file
      PROVE  file'.pending = file.pending
  <2>1. file' = [file EXCEPT !.accounts[op.profile].token = NewToken(op.profile)]
    BY <1>7 DEF Finish, Saved, SaveFails
  <2> QED BY <1>1, <2>1 DEF State
<1>8. ASSUME NEW o \in Owners,
             \/ BeginRenewal(o) \/ BeginDisconnect(o) \/ Close(o) \/ CloseReturns(o) \/ Crash(o)
      PROVE  file' = file
  BY <1>8 DEF BeginRenewal, BeginDisconnect, Close, CloseReturns, Crash
<1>9. ASSUME NEW o \in Owners, NEW p \in Profiles, Select(o, p)
      PROVE  file'.pending = file.pending
  BY <1>1, <1>9, ChosenFile DEF Select, Saved, SaveFails, Chosen
<1>10. ASSUME Rotate \/ EndSession \/ RevokeSession \/ Unavailable
       PROVE  file' = file
  BY <1>10 DEF Rotate, EndSession, RevokeSession, Unavailable, Answered
<1>11. ASSUME PendingExpires PROVE file'.pending = file.pending
  BY <1>1, <1>11, WaitedFile DEF PendingExpires, Waited
<1>12. ASSUME NEW a \in Attempts, LoginStep(a), file' # file
       PROVE  Register(a) \/ Store(a) \/ Cleanup(a)
  BY <1>3, <1>12 DEF LoginStep, QuietStep
<1>13. CASE UNCHANGED vars BY <1>13 DEF vars
<1>14. CASE file' = file BY <1>14
<1>15. CASE Next /\ file' # file
  BY <1>2, <1>3, <1>4, <1>5, <1>6, <1>7, <1>8, <1>9, <1>10, <1>11, <1>12, <1>15
  DEF Next, OpStep
<1> QED BY <1>13, <1>14, <1>15

\* How a sign-in moves, as far as the pending one is concerned.
LEMMA PcStep ==
  ASSUME StoreInv, [Next]_vars, NEW a \in Attempts
  PROVE  \/ UNCHANGED <<pc[a], by[a], profile[a], client[a]>>
         \/ /\ pc[a] = "idle" /\ pc'[a] \in {"wait", "ended"}
            /\ \E o \in Owners : owner[o] = "open" /\ by'[a] \in {o, by[a]}
                                 /\ UNCHANGED owner
                                 /\ \E new \in BOOLEAN : StartLogin(a, o, new)
         \/ /\ pc[a] = "wait" /\ pc'[a] = "register" /\ file' = file
            /\ UNCHANGED profile[a] /\ client'[a] = Issued(a) /\ UNCHANGED by[a]
         \/ /\ pc[a] \in Running /\ pc'[a] \in Running \ {"wait", "register"}
            /\ UNCHANGED by[a]
         \/ /\ pc[a] = "cleanup" /\ pc'[a] = "ended" /\ Cleanup(a)
         \/ /\ pc[a] \in Running /\ pc'[a] = "dead" /\ "crash" \in faults
PROOF
<1> USE DEF server, login, names, Running
<1>1. ASSUME NEW b \in Attempts, NEW o \in Owners, NEW new \in BOOLEAN, StartLogin(b, o, new)
      PROVE  \/ UNCHANGED <<pc[a], by[a], profile[a], client[a]>>
             \/ a = b /\ pc[a] = "idle" /\ pc'[a] \in {"wait", "ended"}
                /\ owner[o] = "open" /\ by'[a] \in {o, by[a]} /\ UNCHANGED owner
  BY <1>1 DEF StartLogin, Go, Fail, StoreInv, TypeOK
<1>2. ASSUME NEW b \in Attempts, Callback(b)
      PROVE  \/ UNCHANGED <<pc[a], by[a], profile[a], client[a]>>
             \/ /\ pc[a] = "wait" /\ pc'[a] = "register" /\ file' = file
                /\ UNCHANGED profile[a] /\ client'[a] = Issued(a) /\ UNCHANGED by[a]
             \/ pc[a] \in Running /\ pc'[a] = "cleanup" /\ UNCHANGED by[a]
  BY <1>2 DEF Callback, Go, Fail, StoreInv, TypeOK
<1>3. ASSUME NEW b \in Attempts,
             \/ Cancelled(b) \/ ExchangeFails(b) \/ Answer(b) \/ Verify(b) \/ Register(b)
             \/ Exchange(b) \/ Store(b) \/ Revoke(b)
      PROVE  \/ UNCHANGED <<pc[a], by[a], profile[a], client[a]>>
             \/ /\ pc[a] \in Running /\ pc'[a] \in Running \ {"wait", "register"}
                /\ UNCHANGED by[a]
  <2>1. UNCHANGED <<by, profile, client>> /\ pc[b] \in Running
    BY <1>3 DEF Cancelled, ExchangeFails, Answer, Verify, Register, Exchange, Store, Revoke
  <2>2. PICK where \in Running \ {"wait", "register"} : pc' = [pc EXCEPT ![b] = where]
    BY <1>3 DEF Cancelled, ExchangeFails, Answer, Verify, Register, Exchange, Store, Revoke,
                Go, Fail, GiveTokens
  <2> QED BY <2>1, <2>2 DEF StoreInv, TypeOK
<1>4. ASSUME NEW b \in Attempts, Cleanup(b)
      PROVE  \/ UNCHANGED <<pc[a], by[a], profile[a], client[a]>>
             \/ pc[a] = "cleanup" /\ pc'[a] = "ended" /\ a = b
  BY <1>4 DEF Cleanup, Go, StoreInv, TypeOK
<1>5. ASSUME NEW o \in Owners, Crash(o)
      PROVE  \/ UNCHANGED <<pc[a], by[a], profile[a], client[a]>>
             \/ pc[a] \in Running /\ pc'[a] = "dead" /\ "crash" \in faults
  BY <1>5 DEF Crash, Logins
<1>6. ASSUME NEW o \in Owners,
             \/ BeginRenewal(o) \/ BeginDisconnect(o) \/ Close(o) \/ CloseReturns(o)
             \/ \E p \in Profiles : Select(o, p)
      PROVE  UNCHANGED <<pc[a], by[a], profile[a], client[a]>>
  BY <1>6 DEF BeginRenewal, BeginDisconnect, Close, CloseReturns, Select
<1>7. ASSUME OpStep \/ PendingExpires \/ \E b \in Attempts : LoginTimesOut(b)
      PROVE  UNCHANGED <<pc[a], by[a], profile[a], client[a]>>
  BY <1>7 DEF OpStep, Rotate, EndSession, RevokeSession, Unavailable, Answered, Finish,
              PendingExpires, LoginTimesOut
<1>8. CASE UNCHANGED vars BY <1>8 DEF vars
<1>9. CASE Next
  <2> HIDE DEF Running
  <2>1. CASE \E b \in Attempts, o \in Owners, new \in BOOLEAN : StartLogin(b, o, new)
    BY <1>1, <2>1
  <2>2. CASE \E b \in Attempts : LoginStep(b)
    BY <1>2, <1>3, <1>4, <2>2 DEF LoginStep, Running
  <2>3. CASE \E o \in Owners : Crash(o) BY <1>5, <2>3
  <2> QED BY <1>6, <1>7, <1>9, <2>1, <2>2, <2>3 DEF Next
<1> QED BY <1>8, <1>9

LEMMA RegistrationKnownStep ==
  StoreInv /\ RegistrationKnown /\ [Next]_vars => RegistrationKnown'
PROOF
<1> SUFFICES ASSUME StoreInv, RegistrationKnown, [Next]_vars, NEW a \in Attempts,
                    file'.pending = a
             PROVE  /\ pc'[a] = "wait" => client'[a] = file'.accounts[profile'[a]].client
                    /\ pc'[a] = "register" =>
                         file'.accounts[profile'[a]].client \in {None, client'[a]}
  BY DEF RegistrationKnown
<1>1. CASE \E o \in Owners, new \in BOOLEAN, p \in Profiles :
             StartLogin(a, o, new) /\ file' = Begun(a, p)
             /\ (pc'[a] = "wait" => profile'[a] = p /\ client'[a] = file.accounts[p].client)
  <2>1. PICK p \in Profiles :
          /\ \E o \in Owners, new \in BOOLEAN : StartLogin(a, o, new)
          /\ file' = Begun(a, p)
          /\ pc'[a] = "wait" => profile'[a] = p /\ client'[a] = file.accounts[p].client
    BY <1>1
  <2>2. file'.accounts = file.accounts BY <2>1, BegunFile DEF StoreInv, TypeOK
  <2>3. pc'[a] # "register" BY <2>1 DEF StartLogin, Go, Fail, StoreInv, TypeOK
  <2> QED BY <2>1, <2>2, <2>3
<1>2. CASE file.pending = a /\ pc'[a] \in {"wait", "register"}
  <2>1. /\ pc[a] = "wait" => client[a] = file.accounts[profile[a]].client
        /\ pc[a] = "register" => file.accounts[profile[a]].client \in {None, client[a]}
    BY <1>2 DEF RegistrationKnown
  <2>2. \/ UNCHANGED <<pc[a], by[a], profile[a], client[a]>>
        \/ /\ pc[a] = "wait" /\ pc'[a] = "register" /\ file' = file
           /\ UNCHANGED profile[a] /\ client'[a] = Issued(a)
        \/ pc[a] = "idle"
    BY <1>2, PcStep
  <2>3. CASE pc[a] = "idle"
    <3>1. PICK o \in Owners, new \in BOOLEAN : StartLogin(a, o, new)
      BY <1>2, <2>3, PcStep DEF Running
    <3>2. PICK p \in Candidates(new) :
            \/ /\ file' = Begun(a, p) /\ Go(a, "wait")
               /\ profile' = [profile EXCEPT ![a] = p]
               /\ client' = [client EXCEPT ![a] = file.accounts[p].client]
            \/ Fail(a, "ended")
      BY <3>1 DEF StartLogin, Saved, SaveFails, Begun
    <3>3. p \in Profiles BY DEF Candidates, StoreInv, TypeOK, State
    <3>4. pc' = [pc EXCEPT ![a] = "wait"] \/ pc' = [pc EXCEPT ![a] = "ended"]
      BY <3>2 DEF Go, Fail
    <3>5. file' = Begun(a, p) => file'.accounts = file.accounts
      BY <3>3, BegunFile DEF StoreInv, TypeOK
    <3> QED BY <1>2, <3>2, <3>4, <3>5 DEF StoreInv, TypeOK, Fail
  <2>4. CASE pc[a] = "wait" /\ pc'[a] = "register" /\ file' = file
             /\ UNCHANGED profile[a] /\ client'[a] = Issued(a)
    BY <2>1, <2>4 DEF Issued
  <2>5. CASE UNCHANGED <<pc[a], by[a], profile[a], client[a]>>
    <3>1. profile[a] \in Profiles BY <1>2, <2>5 DEF StoreInv, TypeOK, LoginKnows
    <3>2. file'.accounts[profile[a]].client = file.accounts[profile[a]].client
      <4>1. ASSUME NEW b \in Attempts, Register(b) \/ Store(b), Pending(b)
            PROVE  FALSE
        <5>1. b = a BY <1>2, <4>1 DEF Pending
        <5>2. pc'[b] # pc[b]
          BY <4>1 DEF Register, Store, Go, Fail, GiveTokens, StoreInv, TypeOK
        <5> QED BY <2>5, <5>1, <5>2
      <4>2. ASSUME NEW b \in Attempts, Store(b), Storable(b) PROVE FALSE
        BY <4>1, <4>2 DEF Storable
      <4> QED BY <3>1, <4>1, <4>2, AccountsStep
    <3> QED BY <2>1, <2>5, <3>2
  <2> QED BY <2>2, <2>3, <2>4, <2>5
<1>3. CASE file.pending # a
  BY <1>1, <1>3, PendingStep
<1> QED BY <1>2, <1>3

\* A registration is written by a sign-in that knows it.
LEMMA RegistrationStep ==
  ASSUME StoreInv, RegistrationKnown, [Next]_vars, NEW p \in Profiles
  PROVE  LET old == file.accounts[p]  new == file'.accounts[p]
         IN /\ old.client # None => new.client = old.client
            /\ old.user # None => new.user = old.user
PROOF
<1>1. ASSUME NEW a \in Attempts, Register(a), Pending(a)
      PROVE  file.accounts[profile[a]].client \in {None, client[a]}
  BY <1>1 DEF Register, Pending, RegistrationKnown
<1>2. ASSUME NEW a \in Attempts, Storable(a)
      PROVE  /\ file.accounts[profile[a]].client = client[a]
             /\ file.accounts[profile[a]].user \in {None, user[a]}
  BY <1>2 DEF Storable
<1>3. ASSUME NEW a \in Attempts, Register(a), Pending(a),
             file'.accounts[profile[a]].client = client[a],
             file'.accounts[profile[a]].user = file.accounts[profile[a]].user,
             \A q \in Profiles : q # profile[a] => file'.accounts[q] = file.accounts[q]
      PROVE  /\ file.accounts[p].client # None =>
                  file'.accounts[p].client = file.accounts[p].client
             /\ file'.accounts[p].user = file.accounts[p].user
  BY <1>1, <1>3
<1>4. ASSUME NEW a \in Attempts, Storable(a),
             file'.accounts[profile[a]] =
               [client |-> client[a], user |-> user[a], token |-> Token(a, 0)],
             \A q \in Profiles : q # profile[a] => file'.accounts[q] = file.accounts[q]
      PROVE  /\ file'.accounts[p].client = file.accounts[p].client
             /\ file.accounts[p].user # None =>
                  file'.accounts[p].user = file.accounts[p].user
  <2>1. CASE p = profile[a] BY <1>2, <1>4, <2>1
  <2>2. CASE p # profile[a] BY <1>4, <2>2
  <2> QED BY <2>1, <2>2
<1>5. ASSUME file'.accounts[op.profile].client = file.accounts[op.profile].client,
             file'.accounts[op.profile].user = file.accounts[op.profile].user,
             \A q \in Profiles : q # op.profile => file'.accounts[q] = file.accounts[q]
      PROVE  /\ file'.accounts[p].client = file.accounts[p].client
             /\ file'.accounts[p].user = file.accounts[p].user
  BY <1>5
<1> QED BY <1>3, <1>4, <1>5, AccountsStep

------------------------------------------------------------------------------
(* Ends of sign-ins.                                                           *)

LEMMA PendingIsRunningStep ==
  StoreInv /\ PendingIsRunning /\ [Next]_vars => PendingIsRunning'
PROOF
<1> SUFFICES ASSUME StoreInv, PendingIsRunning, [Next]_vars,
                    faults' \subseteq {"revoke", "lost", "close"}, file'.pending # None
             PROVE  pc'[file'.pending] \in Running
  BY DEF PendingIsRunning
<1>1. faults' = faults
  <2>1. Next => faults' = faults
    BY DEF Next, StartLogin, LoginStep, LoginTimesOut, Callback, Cancelled, Register,
           Exchange, ExchangeFails, Answer, Verify, Store, Revoke, Cleanup, BeginRenewal,
           BeginDisconnect, Close, CloseReturns, Crash, Select, OpStep, Rotate, EndSession,
           RevokeSession, Unavailable, Answered, Finish, PendingExpires
  <2> QED BY <2>1 DEF vars
<1>2. CASE file'.pending = file.pending
  <2> DEFINE a == file.pending
  <2>1. a \in Attempts /\ pc[a] \in Running
    BY <1>1, <1>2 DEF PendingIsRunning, StoreInv, TypeOK, State
  <2> HIDE DEF a
  <2>2. ASSUME Cleanup(a) PROVE FALSE
    <3>1. LockFree /\ Pending(a) /\ file' = Cleaned(a)
      BY <1>1, <2>2 DEF Cleanup, Saved, SaveFails, Pending, a
    <3>2. file'.pending = None BY <2>1, <3>1, CleanedFile DEF StoreInv, TypeOK
    <3> QED BY <1>2, <2>1, <3>2 DEF a
  <2>3. pc'[a] \in Running
    BY <1>1, <2>1, <2>2, PcStep DEF Running
  <2> QED BY <1>2, <2>3 DEF a
<1>3. ASSUME NEW a \in Attempts, NEW o \in Owners, NEW new \in BOOLEAN,
             StartLogin(a, o, new), file'.pending = a
      PROVE  pc'[a] \in Running
  BY <1>1, <1>3 DEF StartLogin, SaveFails, Go, StoreInv, TypeOK, Running
<1> QED BY <1>2, <1>3, PendingStep

LEMMA ClosedIsQuietStep ==
  StoreInv /\ ClosedIsQuiet /\ [Next]_vars => ClosedIsQuiet'
PROOF
<1> SUFFICES ASSUME StoreInv, ClosedIsQuiet, [Next]_vars,
                    NEW o \in Owners, owner'[o] = "closed",
                    NEW a \in Attempts, by'[a] = o, pc'[a] \in Running
             PROVE  FALSE
  BY DEF ClosedIsQuiet, Logins
<1>1. \/ owner[o] = "closed"
      \/ CloseReturns(o)
  <2>1. \/ owner' = owner
        \/ \E q \in Owners : Close(q) \/ Crash(q) \/ CloseReturns(q)
    <3>1. Next => \/ owner' = owner
                  \/ \E q \in Owners : Close(q) \/ Crash(q) \/ CloseReturns(q)
      BY DEF Next, StartLogin, LoginStep, LoginTimesOut, Callback, Cancelled, Register,
             Exchange, ExchangeFails, Answer, Verify, Store, Revoke, Cleanup, BeginRenewal,
             BeginDisconnect, Select, OpStep, Rotate, EndSession,
             RevokeSession, Unavailable, Answered, Finish, PendingExpires
    <3> QED BY <3>1 DEF vars
  <2>2. ASSUME NEW q \in Owners, Close(q) \/ Crash(q) \/ (CloseReturns(q) /\ q # o)
        PROVE  owner[o] = "closed"
    BY <2>2 DEF Close, Crash, CloseReturns, StoreInv, TypeOK
  <2> QED BY <2>1, <2>2
<1>2. Logins(o) = {} BY <1>1 DEF ClosedIsQuiet, CloseReturns
<1>3. ~(by[a] = o /\ pc[a] \in Running) BY <1>2 DEF Logins
<1>4. pc[a] = "idle" /\ UNCHANGED owner /\ \E q \in Owners : owner[q] = "open" /\ by'[a] \in {q, by[a]}
      /\ \E new \in BOOLEAN : StartLogin(a, q, new)
  BY <1>3, PcStep DEF Running
<1>5. PICK q \in Owners, new \in BOOLEAN : StartLogin(a, q, new) /\ owner[q] = "open"
  BY <1>4
<1>6. by'[a] = q
  BY <1>5 DEF StartLogin, Fail, StoreInv, TypeOK, Running
<1>7. owner[o] = "closed" BY <1>4, <1>1 DEF CloseReturns, StoreInv, TypeOK
<1> QED BY <1>5, <1>6, <1>7

------------------------------------------------------------------------------
(* Sessions and tokens.                                                        *)

\* Where a session is accounted for.
Accounted(a) ==
  session[a] = "live" =>
    Held(a) \/ a \in replaced \/ pc[a] \in {"verify", "store", "revoke"}
            \/ failure[a] = "unconfirmed"

LEMMA SameHeld ==
  ASSUME NEW a, \A p \in Profiles : file'.accounts[p].token = file.accounts[p].token
  PROVE  Held(a) => Held(a)'
  BY DEF Held

\* The steps of a sign-in account for its session.
LEMMA LoginAccounted ==
  ASSUME StoreInv, NEW b \in Attempts, LoginStep(b), NEW a \in tokens', a \in tokens => Accounted(a)
  PROVE  Accounted(a)'
PROOF
<1> USE DEF server, login, names
<1>1. a \in Attempts /\ (a \in tokens => pc[a] \in {"verify", "store", "revoke", "cleanup", "ended", "dead"})
  <2>1. tokens' \subseteq Attempts BY StoreInvStep DEF StoreInv, TypeOK, Next
  <2> QED BY <2>1 DEF StoreInv, LoginKnows
<1>2. CASE Store(b)
  <2>1. /\ UNCHANGED <<tokens, server>> /\ pc[b] = "store" /\ profile[b] \in Profiles
        /\ replaced \subseteq replaced'
        /\ client[b] \in Attempts /\ user[b] \in Users /\ file \in State
    BY <1>2 DEF Store, StoreInv, TypeOK, LoginKnows
  <2>2. a # b => pc'[a] = pc[a] /\ failure'[a] = failure[a]
    BY <1>2 DEF Store, Go, Fail, GiveTokens, StoreInv, TypeOK
  <2>3. CASE file' = file
    <3>1. Held(a) => Held(a)' BY <2>3, SameHeld
    <3>2. a = b => pc'[a] = "revoke" \/ Held(a)'
      <4>1. a = b /\ pc'[a] # "revoke" => file' = Stored(b)
        BY <1>2, <2>1 DEF Store, Go, Fail, Saved, GiveTokens, StoreInv, TypeOK
      <4>2. ASSUME file' = Stored(b)
            PROVE  file'.accounts[profile[b]].token = Token(b, 0)
        <5>1. file'.accounts[profile[b]] =
                [client |-> client[b], user |-> user[b], token |-> Token(b, 0)]
          BY <2>1, <4>2, StoredFile
        <5> QED BY <5>1
      <4> QED BY <2>1, <4>1, <4>2 DEF Held, Token
    <3> QED BY <1>1, <2>1, <2>2, <3>1, <3>2 DEF Accounted
  <2>4. CASE file' # file
    <3>1. file' = Stored(b) BY <1>2, <2>4 DEF Store, Saved, SaveFails
    <3>2. /\ file'.accounts[profile[b]] =
               [client |-> client[b], user |-> user[b], token |-> Token(b, 0)]
          /\ \A q \in Profiles : q # profile[b] => file'.accounts[q] = file.accounts[q]
      BY <2>1, <3>1, StoredFile
    <3>3. Held(b)' BY <2>1, <3>2 DEF Held, Token
    <3>4. Held(a) => Held(a)' \/ a \in replaced'
      <4>1. file.accounts[profile[b]].token.session = a => a \in replaced'
        BY <1>1, <1>2, <2>4 DEF Store
      <4> QED BY <3>2, <4>1 DEF Held
    <3> QED BY <1>1, <2>1, <2>2, <3>3, <3>4 DEF Accounted
  <2> QED BY <2>3, <2>4
<1>3. CASE ~Store(b)
  <2>1. replaced' = replaced
    BY <1>3 DEF LoginStep, Callback, Cancelled, Register, Exchange, ExchangeFails, Answer,
                Verify, Revoke, Cleanup
  <2>2. Held(a) => Held(a)'
    <3>1. ~Finish \/ file'.accounts = file.accounts
      BY DEF LoginStep, Callback, Cancelled, Register, Exchange, ExchangeFails, Answer,
             Verify, Store, Revoke, Cleanup, LockFree, Finish, NoOp, Op, Pending, Go, Fail,
             StoreInv, TypeOK
    <3>2. \A c \in Attempts : ~Store(c)
      BY <1>3 DEF LoginStep, Callback, Cancelled, Register, Exchange, ExchangeFails, Answer,
             Verify, Store, Revoke, Cleanup, Go, Fail, GiveTokens, StoreInv, TypeOK
    <3>3. \A p \in Profiles : file'.accounts[p].token = file.accounts[p].token
      BY <3>1, <3>2, AccountsStep DEF Next
    <3> QED BY <3>3, SameHeld
  <2>3. CASE a = b
    BY <1>1, <1>3, <2>1, <2>2, <2>3
    DEF LoginStep, Callback, Cancelled, Register, Exchange, ExchangeFails, Answer,
        Verify, Revoke, Cleanup, Go, Fail, GiveTokens, StoreInv, TypeOK, LoginKnows, Accounted
  <2>4. CASE a # b
    <3>1. /\ pc'[a] = pc[a] /\ failure'[a] = failure[a] /\ session'[a] = session[a]
          /\ a \in tokens
      BY <1>1, <1>3, <2>4
      DEF LoginStep, Callback, Cancelled, Register, Exchange, ExchangeFails, Answer,
          Verify, Revoke, Cleanup, Go, Fail, GiveTokens, StoreInv, TypeOK
    <3> QED BY <2>1, <2>2, <3>1 DEF Accounted
  <2> QED BY <2>3, <2>4
<1> QED BY <1>2, <1>3

LEMMA SessionsAccountedStep ==
  StoreInv /\ SessionsAccounted /\ [Next]_vars => SessionsAccounted'
PROOF
<1> USE DEF server, login, names
<1> SUFFICES ASSUME StoreInv, SessionsAccounted, [Next]_vars, "crash" \notin faults',
                    NEW a \in tokens'
             PROVE  Accounted(a)'
  BY DEF SessionsAccounted, Accounted
<1>1. faults' = faults
  <2>1. Next => faults' = faults
    BY DEF Next, StartLogin, LoginStep, LoginTimesOut, Callback, Cancelled, Register,
           Exchange, ExchangeFails, Answer, Verify, Store, Revoke, Cleanup, BeginRenewal,
           BeginDisconnect, Close, CloseReturns, Crash, Select, OpStep, Rotate, EndSession,
           RevokeSession, Unavailable, Answered, Finish, PendingExpires
  <2> QED BY <2>1 DEF vars
<1>2. a \in tokens => Accounted(a) BY <1>1 DEF SessionsAccounted, Accounted
<1>3. a \in tokens => a \in Attempts /\ pc[a] # "idle"
  BY DEF StoreInv, TypeOK, LoginKnows
<1>4. ASSUME NEW b \in Attempts, NEW o \in Owners, NEW new \in BOOLEAN, StartLogin(b, o, new)
      PROVE  Accounted(a)'
  <2>1. UNCHANGED <<tokens, session, replaced>> /\ pc[b] = "idle" /\ LockFree
    BY <1>4 DEF StartLogin
  <2>2. pc'[a] = pc[a] /\ failure'[a] = failure[a]
    BY <1>3, <1>4, <2>1 DEF StartLogin, Go, Fail, StoreInv, TypeOK
  <2>3. PICK p \in Candidates(new) : file' \in {file, Begun(b, p)}
    BY <1>4 DEF StartLogin, Saved, SaveFails, Begun
  <2>4. p \in Profiles BY DEF Candidates, StoreInv, TypeOK, State
  <2>5. file'.accounts = file.accounts BY <2>3, <2>4, BegunFile DEF StoreInv, TypeOK
  <2>6. Held(a) => Held(a)' BY <2>5, SameHeld
  <2> QED BY <1>2, <2>1, <2>2, <2>6 DEF Accounted
<1>5. ASSUME NEW b \in Attempts, LoginStep(b) PROVE Accounted(a)'
  BY <1>2, <1>5, LoginAccounted
<1>6. CASE Finish
  <2>1. UNCHANGED <<tokens, session, replaced, pc, failure>> BY <1>6 DEF Finish
  <2>2. op.profile \in Profiles /\ op.token = file.accounts[op.profile].token
    BY <1>6 DEF Finish, StoreInv, OpHoldsAccount, TypeOK, NoOp, Op
  <2>3. Held(a) => Held(a)' \/ session[a] = "dead"
    <3>1. CASE file' = file BY <3>1, SameHeld
    <3>2. CASE file' # file
      <4>1. file' = Retoken(op.profile, NewToken(op.profile)) /\ op.answer \in {"renewed", "cleared"}
        BY <1>6, <3>2 DEF Finish, Saved, SaveFails, Retoken, StoreInv, TypeOK
      <4>2. op.answer = "cleared" => session[op.token.session] = "dead"
        BY DEF StoreInv, OpHoldsAccount
      <4>3. op.answer = "renewed" => NewToken(op.profile).session = op.token.session
        BY DEF NewToken, Token
      <4>4. file'.accounts[op.profile].token = NewToken(op.profile)
            /\ \A q \in Profiles : q # op.profile => file'.accounts[q] = file.accounts[q]
        <5>1. file.accounts \in [Profiles -> Account] /\ file \in State
          BY DEF StoreInv, TypeOK, State
        <5> QED BY <2>2, <4>1, <5>1 DEF Retoken, State, Account
      <4> QED BY <2>2, <4>1, <4>2, <4>3, <4>4 DEF Held
    <3> QED BY <3>1, <3>2
  <2> QED BY <1>2, <2>1, <2>3 DEF Accounted
<1>7. ASSUME NEW o \in Owners, Crash(o) PROVE Accounted(a)'
  BY <1>1, <1>7 DEF Crash
<1>8. CASE file' = file /\ UNCHANGED <<tokens, replaced, pc, failure>>
           /\ \A b \in Attempts : session'[b] = "live" => session[b] = "live"
  <2>1. Held(a) => Held(a)' BY <1>8, SameHeld
  <2> QED BY <1>2, <1>3, <1>8, <2>1 DEF Accounted
<1>9. ASSUME NEW o \in Owners, NEW p \in Profiles, Select(o, p) PROVE Accounted(a)'
  <2>1. UNCHANGED <<tokens, session, replaced, pc, failure>> /\ file' \in {file, Chosen(p)}
    BY <1>9 DEF Select, Saved, SaveFails, Chosen
  <2>2. Held(a) => Held(a)' BY <2>1, ChosenFile, SameHeld DEF StoreInv, TypeOK
  <2> QED BY <1>2, <2>1, <2>2 DEF Accounted
<1>10. CASE PendingExpires
  <2>1. UNCHANGED <<tokens, session, replaced, pc, failure>> /\ file' = Waited
    BY <1>10 DEF PendingExpires, Waited
  <2>2. Held(a) => Held(a)' BY <2>1, WaitedFile, SameHeld DEF StoreInv, TypeOK
  <2> QED BY <1>2, <2>1, <2>2 DEF Accounted
<1>11. ASSUME \/ \E b \in Attempts : LoginTimesOut(b)
              \/ \E o \in Owners : BeginRenewal(o) \/ BeginDisconnect(o) \/ Close(o)
                                   \/ CloseReturns(o)
              \/ Rotate \/ EndSession \/ RevokeSession \/ Unavailable
       PROVE  Accounted(a)'
  <2>1. file' = file /\ UNCHANGED <<tokens, replaced, pc, failure>>
    BY <1>11 DEF LoginTimesOut, BeginRenewal, BeginDisconnect, Close, CloseReturns, Rotate,
                 EndSession, RevokeSession, Unavailable, Answered
  <2>2. session' = session \/ \E c \in Attempts : session' = [session EXCEPT ![c] = "dead"]
    <3>1. op.kind # "none" => op.token.session \in Attempts BY OpSession
    <3> QED BY <1>11, <3>1 DEF LoginTimesOut, BeginRenewal, BeginDisconnect, Close,
                 CloseReturns, Rotate, EndSession, RevokeSession, Unavailable, Answered
  <2>3. \A b \in Attempts : session'[b] = "live" => session[b] = "live"
    BY <2>2 DEF StoreInv, TypeOK
  <2> QED BY <1>8, <2>1, <2>3
<1>12. CASE UNCHANGED vars BY <1>8, <1>12 DEF vars
<1> QED BY <1>4, <1>5, <1>6, <1>7, <1>9, <1>10, <1>11, <1>12 DEF Next, OpStep

\* What makes StoredTokenIsCurrent inductive: a token that was renewed is of a session
\* that still lives.
TokenInv ==
  /\ StoredTokenIsCurrent
  /\ faults \subseteq {"busy", "close"} /\ op.answer = "renewed" =>
       session[op.token.session] = "live"

\* No operation is under way, or it is at the same point, and no stored session changes.
LEMMA SameServer ==
  ASSUME StoreInv, TokenInv, faults' = faults, op' = op,
         \A p \in Profiles : file'.accounts[p].token = file.accounts[p].token,
         \A a \in Attempts :
           (\E p \in Profiles : file.accounts[p].token # NoToken
                                /\ file.accounts[p].token.session = a)
           => session'[a] = session[a] /\ rotation'[a] = rotation[a]
  PROVE  TokenInv'
PROOF
<1>1. ASSUME NEW p \in Profiles, file.accounts[p].token # NoToken
      PROVE  LET s == file.accounts[p].token.session
             IN session'[s] = session[s] /\ rotation'[s] = rotation[s]
  <2>1. file.accounts[p].token.session \in Attempts
    BY <1>1, AccountFields DEF StoreInv, TypeOK, AccountInOrder
  <2> QED BY <1>1, <2>1
<1>2. StoredTokenIsCurrent'
  BY <1>1 DEF TokenInv, StoredTokenIsCurrent, Current, NoToken, Token
<1>3. op.answer = "renewed" => session'[op.token.session] = session[op.token.session]
  <2>1. op.answer = "renewed" => op.profile \in Profiles /\ op.token # NoToken
                                 /\ op.token = file.accounts[op.profile].token
    BY DEF StoreInv, OpHoldsAccount, TypeOK, NoOp, Op
  <2> QED BY <1>1, <2>1
<1> QED BY <1>2, <1>3 DEF TokenInv

LEMMA TokenInvStep ==
  StoreInv /\ TokenInv /\ [Next]_vars => TokenInv'
PROOF
<1> USE DEF server, login, names
<1> SUFFICES ASSUME StoreInv, TokenInv, [Next]_vars, faults' \subseteq {"busy", "close"}
             PROVE  TokenInv'
  BY DEF TokenInv, StoredTokenIsCurrent
<1>1. faults' = faults
  <2>1. Next => faults' = faults
    BY DEF Next, StartLogin, LoginStep, LoginTimesOut, Callback, Cancelled, Register,
           Exchange, ExchangeFails, Answer, Verify, Store, Revoke, Cleanup, BeginRenewal,
           BeginDisconnect, Close, CloseReturns, Crash, Select, OpStep, Rotate, EndSession,
           RevokeSession, Unavailable, Answered, Finish, PendingExpires
  <2> QED BY <2>1 DEF vars
\* A stored session is of a sign-in that has finished its own use of it.
<1>2. \A p \in Profiles : file.accounts[p].token # NoToken =>
        pc[file.accounts[p].token.session] \in {"cleanup", "ended", "dead"}
  BY <1>1 DEF StoreInv, AccountInOrder
<1>3. ASSUME NEW a \in Attempts, LoginStep(a), ~Store(a) PROVE TokenInv'
  <2>1. op' = op
    BY <1>3 DEF LoginStep, Callback, Cancelled, Register, Exchange, ExchangeFails, Answer,
                Verify, Revoke, Cleanup
  <2>2. \A p \in Profiles : file'.accounts[p].token = file.accounts[p].token
    <3>1. ~Finish \/ file'.accounts = file.accounts
      BY <1>3 DEF LoginStep, Callback, Cancelled, Register, Exchange, ExchangeFails, Answer,
             Verify, Revoke, Cleanup, LockFree, Finish, NoOp, Op, Go, Fail,
             StoreInv, TypeOK
    <3>2. \A c \in Attempts : ~Store(c)
      BY <1>3 DEF LoginStep, Callback, Cancelled, Register, Exchange, ExchangeFails, Answer,
             Verify, Store, Revoke, Cleanup, Go, Fail, GiveTokens, StoreInv, TypeOK
    <3> QED BY <3>1, <3>2, AccountsStep
  <2>3. ASSUME NEW b \in Attempts, pc[b] \in {"cleanup", "ended", "dead"}
        PROVE  session'[b] = session[b] /\ rotation'[b] = rotation[b]
    BY <1>3, <2>3 DEF LoginStep, Callback, Cancelled, Register, Exchange, ExchangeFails,
         Answer, Verify, Revoke, Cleanup, StoreInv, TypeOK
  <2> QED BY <1>1, <1>2, <2>1, <2>2, <2>3, SameServer
<1>4. ASSUME NEW a \in Attempts, Store(a) PROVE TokenInv'
  <2>1. UNCHANGED <<op, server>> BY <1>4 DEF Store
  <2>2. CASE file' = file BY <1>1, <2>1, <2>2, SameServer
  <2>3. CASE file' # file
    <3>1. file' = Stored(a) /\ LockFree BY <1>4, <2>3 DEF Store, Saved, SaveFails
    <3>2. profile[a] \in Profiles /\ client[a] \in Attempts /\ user[a] \in Users
          /\ file \in State
      BY <1>4 DEF Store, StoreInv, TypeOK, LoginKnows
    <3>3. /\ file'.accounts[profile[a]] =
               [client |-> client[a], user |-> user[a], token |-> Token(a, 0)]
          /\ \A q \in Profiles : q # profile[a] => file'.accounts[q] = file.accounts[q]
      BY <3>1, <3>2, StoredFile
    <3>4. session[a] = "live" /\ rotation[a] = 0
      BY <1>4 DEF Store, StoreInv, LoginKnows
    <3>5. op.answer = "none" BY <3>1 DEF LockFree, NoOp, Op
    <3>6. ASSUME NEW p \in Profiles, file'.accounts[p].token # NoToken
          PROVE  session[file'.accounts[p].token.session] = "live"
                 /\ rotation[file'.accounts[p].token.session] = file'.accounts[p].token.n
      <4>1. CASE p = profile[a] BY <3>3, <3>4, <4>1 DEF Token
      <4>2. CASE p # profile[a]
        BY <1>1, <3>3, <3>5, <3>6, <4>2 DEF TokenInv, StoredTokenIsCurrent, Current
      <4> QED BY <4>1, <4>2
    <3> QED BY <2>1, <3>5, <3>6
        DEF TokenInv, StoredTokenIsCurrent, Current, NoToken, Token
  <2> QED BY <2>2, <2>3
<1>5. ASSUME NEW o \in Owners, BeginRenewal(o) \/ BeginDisconnect(o) PROVE TokenInv'
  <2>1. UNCHANGED <<file, server>> /\ op.answer = "none" /\ op'.answer = "none"
    BY <1>5 DEF BeginRenewal, BeginDisconnect, LockFree, NoOp, Op
  <2> QED BY <1>1, <2>1 DEF TokenInv, StoredTokenIsCurrent, Current, NoToken, Token
<1>6. CASE Rotate \/ EndSession \/ RevokeSession
  <2> DEFINE t == op.token
  <2>1. /\ file' = file /\ op.kind # "none" /\ op.answer = "none"
    BY <1>6 DEF Rotate, EndSession, RevokeSession, Answered
  <2>2. /\ op'.answer \in {"renewed", "cleared"} /\ op'.profile = op.profile /\ op'.token = t
    BY <1>1, <1>6 DEF Rotate, EndSession, RevokeSession, Answered, Lossy, StoreInv, TypeOK
  <2>3. t.session \in Attempts BY <2>1, OpSession
  <2>4. /\ session' \in {session, [session EXCEPT ![t.session] = "dead"]}
        /\ rotation' \in {rotation, [rotation EXCEPT ![t.session] = @ + 1]}
    BY <1>6 DEF Rotate, EndSession, RevokeSession
  <2>5. \A b \in Attempts : b # t.session => session'[b] = session[b] /\ rotation'[b] = rotation[b]
    BY <2>4 DEF StoreInv, TypeOK
  <2>6. /\ op.profile \in Profiles /\ file.accounts[op.profile].token = t /\ t # NoToken
    BY <2>1 DEF StoreInv, OpHoldsAccount, TypeOK
  <2>7. ASSUME NEW p \in Profiles, file.accounts[p].token # NoToken, p # op.profile
        PROVE  Current(file.accounts[p].token)'
    <3> DEFINE s == file.accounts[p].token.session
    <3>1. s \in Attempts
      BY <2>7, AccountFields DEF StoreInv, TypeOK, AccountInOrder
    <3>2. s # t.session BY <2>6, <2>7 DEF StoreInv, OneAccountEach
    <3>3. session[s] = "live" /\ rotation[s] = file.accounts[p].token.n
      BY <1>1, <2>1, <2>7 DEF TokenInv, StoredTokenIsCurrent, Current
    <3> QED BY <2>1, <2>5, <3>1, <3>2, <3>3 DEF Current
  <2>8. StoredTokenIsCurrent'
    BY <2>1, <2>2, <2>7 DEF StoredTokenIsCurrent, NoToken, Token
  <2>9. op'.answer = "renewed" => session'[t.session] = "live"
    BY <1>1, <1>6 DEF Rotate, EndSession, RevokeSession, Answered, Lossy, Current, StoreInv, TypeOK
  <2> QED BY <2>2, <2>8, <2>9 DEF TokenInv
<1>7. CASE Unavailable
  <2>1. UNCHANGED <<file, server>> /\ op.answer = "none" /\ op'.answer = "failed"
    BY <1>7 DEF Unavailable, Answered, StoreInv, TypeOK
  <2> QED BY <1>1, <2>1 DEF TokenInv, StoredTokenIsCurrent, Current, NoToken, Token
<1>8. CASE Finish
  <2> DEFINE p == op.profile  t == op.token
  <2>1. /\ UNCHANGED server /\ op'.answer = "none" /\ op.answer # "none"
    BY <1>8 DEF Finish, NoOp, Op
  <2>2. /\ p \in Profiles /\ file.accounts[p].token = t /\ t # NoToken
    BY <2>1 DEF StoreInv, OpHoldsAccount, TypeOK, NoOp, Op
  <2>3. \A q \in Profiles : q # p /\ file.accounts[q].token # NoToken =>
          Current(file.accounts[q].token)
    BY <1>1 DEF TokenInv, StoredTokenIsCurrent
  <2>4. CASE op.answer = "failed"
    <3>1. file' = file BY <1>8, <2>4 DEF Finish
    <3>2. Current(t) BY <1>1, <2>2, <2>4 DEF TokenInv, StoredTokenIsCurrent
    <3> QED BY <2>1, <2>2, <2>3, <3>1, <3>2
        DEF TokenInv, StoredTokenIsCurrent, Current, NoToken, Token
  <2>5. CASE op.answer # "failed"
    <3>1. file' = Retoken(p, NewToken(p))
      BY <1>1, <1>8, <2>5 DEF Finish, Saved, SaveFails, Retoken
    <3>2. file'.accounts[p].token = NewToken(p)
          /\ \A q \in Profiles : q # p => file'.accounts[q] = file.accounts[q]
      <4>1. file.accounts \in [Profiles -> Account] /\ file \in State
        BY DEF StoreInv, TypeOK, State
      <4> QED BY <2>2, <3>1, <4>1 DEF Retoken, State, Account
    <3>3. NewToken(p) # NoToken =>
            session[t.session] = "live" /\ rotation[t.session] = t.n + 1
            /\ NewToken(p) = Token(t.session, t.n + 1)
      BY <1>1 DEF NewToken, TokenInv, StoreInv, OpHoldsAccount
    <3>4. ASSUME NEW q \in Profiles, file'.accounts[q].token # NoToken
          PROVE  session[file'.accounts[q].token.session] = "live"
                 /\ rotation[file'.accounts[q].token.session] = file'.accounts[q].token.n
      <4>1. CASE q = p BY <3>2, <3>3, <3>4, <4>1 DEF Token
      <4>2. CASE q # p BY <2>3, <3>2, <3>4, <4>2 DEF Current
      <4> QED BY <4>1, <4>2
    <3> QED BY <2>1, <3>4 DEF TokenInv, StoredTokenIsCurrent, Current, NoToken, Token
  <2> QED BY <2>4, <2>5
<1>9. ASSUME \/ PendingExpires \/ \E a \in Attempts : LoginTimesOut(a)
             \/ \E a \in Attempts, o \in Owners, new \in BOOLEAN : StartLogin(a, o, new)
             \/ \E o \in Owners : \/ Close(o) \/ CloseReturns(o)
                                  \/ \E p \in Profiles : Select(o, p)
             \/ UNCHANGED vars
      PROVE  TokenInv'
  <2>1. UNCHANGED <<op, server>>
    BY <1>9 DEF PendingExpires, LoginTimesOut, StartLogin, Close, CloseReturns, Select, vars
  <2>2. file \in State BY DEF StoreInv, TypeOK
  <2>3. file'.accounts = file.accounts
    <3>1. ASSUME NEW a \in Attempts, NEW o \in Owners, NEW new \in BOOLEAN, StartLogin(a, o, new)
          PROVE  file'.accounts = file.accounts
      <4>1. PICK p \in Candidates(new) : file' \in {file, Begun(a, p)}
        BY <3>1 DEF StartLogin, Saved, SaveFails, Begun
      <4>2. p \in Profiles BY DEF Candidates, StoreInv, TypeOK, State
      <4> QED BY <4>1, <4>2, BegunFile DEF StoreInv, TypeOK
    <3>2. ASSUME NEW o \in Owners, NEW p \in Profiles, Select(o, p)
          PROVE  file'.accounts = file.accounts
      <4>1. file' \in {file, Chosen(p)} BY <3>2 DEF Select, Saved, SaveFails, Chosen
      <4> QED BY <2>2, <4>1, ChosenFile
    <3>3. PendingExpires => file'.accounts = file.accounts
      BY <2>2, WaitedFile DEF PendingExpires, Waited
    <3>4. ASSUME NEW a \in Attempts, LoginTimesOut(a) PROVE file' = file
      BY <3>4 DEF LoginTimesOut
    <3>5. ASSUME NEW o \in Owners, Close(o) \/ CloseReturns(o) PROVE file' = file
      BY <3>5 DEF Close, CloseReturns
    <3>6. UNCHANGED vars => file' = file BY DEF vars
    <3> QED BY <1>9, <3>1, <3>2, <3>3, <3>4, <3>5, <3>6
  <2> QED BY <1>1, <2>1, <2>3, SameServer
<1>10. ASSUME NEW o \in Owners, Crash(o) PROVE TokenInv'
  BY <1>1, <1>10 DEF Crash
<1> QED BY <1>3, <1>4, <1>5, <1>6, <1>7, <1>8, <1>9, <1>10 DEF Next, OpStep

------------------------------------------------------------------------------
(* The theorems.                                                               *)

LEMMA InitProperties ==
  Init => /\ RegistrationKnown /\ PendingIsRunning /\ ClosedIsQuiet
          /\ SessionsAccounted /\ TokenInv
PROOF
<1> SUFFICES ASSUME Init
             PROVE  /\ RegistrationKnown /\ PendingIsRunning /\ ClosedIsQuiet
                    /\ SessionsAccounted /\ TokenInv
  OBVIOUS
<1> USE DEF Init
<1>1. RegistrationKnown /\ PendingIsRunning BY DEF RegistrationKnown, PendingIsRunning
<1>2. ClosedIsQuiet BY DEF ClosedIsQuiet
<1>3. SessionsAccounted BY DEF SessionsAccounted
<1>4. TokenInv BY DEF TokenInv, StoredTokenIsCurrent, Blank, NoOp, Op
<1> QED BY <1>1, <1>2, <1>3, <1>4

\* The store and its sign-ins agree: accounts with credentials and the active one are
\* registered and verified, the pending sign-in knows the registration of its account and
\* is under way, and a provider that was closed runs none.
THEOREM Invariance == Spec => []IInv
PROOF
<1>1. StoreInv /\ RegistrationKnown /\ PendingIsRunning /\ ClosedIsQuiet => IInv
  BY DEF StoreInv, IInv, AccountsVerified, AccountInOrder
<1> QED BY <1>1, StoreInvariance, InitProperties, RegistrationKnownStep,
           PendingIsRunningStep, ClosedIsQuietStep, PTL DEF Spec

\* The client id and the subject of an account never change, whatever fails.
THEOREM RegistrationIsForGood == Spec => RegistrationKept
PROOF
<1>1. StoreInv /\ RegistrationKnown /\ [Next]_vars =>
        [\A p \in Profiles :
           LET old == file.accounts[p]  new == file'.accounts[p]
           IN /\ old.client # None => new.client = old.client
              /\ old.user # None => new.user = old.user]_vars
  BY RegistrationStep
<1> QED BY <1>1, StoreInvariance, InitProperties, RegistrationKnownStep, PTL
        DEF Spec, RegistrationKept

\* No session that lives is forgotten.
THEOREM NoSessionForgotten == Spec => []SessionsAccounted
  BY StoreInvariance, InitProperties, SessionsAccountedStep, PTL DEF Spec

\* The refresh token on disk is the one the server expects.
THEOREM TokenNeverStale == Spec => []StoredTokenIsCurrent
PROOF
<1>1. TokenInv => StoredTokenIsCurrent BY DEF TokenInv
<1> QED BY <1>1, StoreInvariance, InitProperties, TokenInvStep, PTL DEF Spec
==============================================================================
