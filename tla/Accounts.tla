------------------------------ MODULE Accounts ------------------------------
(* Accounts of a team server (qasight/accounts.py) and the cookies that        *)
(* sign-ins hand out for them (qasight_api/security.py, routes/auth.py).       *)
(* An administrator's command reads a row and writes it back; a sign-in checks *)
(* the password against a row and later makes a cookie of what it read. The    *)
(* table of the time of creation and every password is a number of a clock     *)
(* that moves with each write, so that two of them are never equal. The 30     *)
(* days after which a cookie ends are left out.                                *)
EXTENDS Naturals

CONSTANTS
  Names,        \* of accounts
  Admins,       \* commands that may run at the same time
  SignIns,      \* requests to /login
  MaxChanges,   \* bound: writes to the accounts
  MaxTokens,    \* bound: values TESTO_API_TOKEN takes
  SessionKey,   \* TESTO_SESSION_KEY is set
  None

VARIABLES
  row,          \* per name, its row of user_account, or None
  command,      \* per command, the row it read and is about to write back, or None
  signIn,       \* per sign-in, the account it authenticated, or None
  cookies,      \* handed out so far
  token,        \* TESTO_API_TOKEN: the n-th value
  previous,     \* TESTO_API_TOKEN_PREVIOUS, or None
  clock,        \* writes so far
  changed,      \* per name, when its account was last changed, added or removed (a ghost)
  overlapped    \* names two commands were at work on at the same time (a ghost)

vars == <<row, command, signIn, cookies, token, previous, clock, changed, overlapped>>

SessionSecret == 0

TypeOK ==
  /\ \A n \in Names : row[n] # None =>
       /\ row[n].version \in 1 .. MaxChanges + 1
       /\ row[n].created \in 1 .. clock /\ row[n].password \in 1 .. clock
  /\ \A a \in Admins : command[a] # None => command[a].name \in Names
  /\ \A s \in SignIns : signIn[s] # None => signIn[s].name \in Names
  /\ \A c \in cookies : c.name \in Names /\ c.asOf \in 0 .. clock /\ c.key \in 0 .. token
  /\ token \in 1 .. MaxTokens /\ previous \in (1 .. token) \cup {None}
  /\ clock \in 0 .. MaxChanges /\ changed \in [Names -> 0 .. clock] /\ overlapped \subseteq Names

Init ==
  /\ row = [n \in Names |-> None] /\ command = [a \in Admins |-> None]
  /\ signIn = [s \in SignIns |-> None] /\ cookies = {}
  /\ token = 1 /\ previous = None
  /\ clock = 0 /\ changed = [n \in Names |-> 0] /\ overlapped = {}

-----------------------------------------------------------------------------
(* Administrators.                                                             *)
Overlap(a, n) ==
  overlapped' =
    IF \E b \in Admins \ {a} : command[b] # None /\ command[b].name = n
    THEN overlapped \cup {n} ELSE overlapped

Write(n, r) ==
  /\ clock < MaxChanges
  /\ row' = [row EXCEPT ![n] = r]
  /\ clock' = clock + 1 /\ changed' = [changed EXCEPT ![n] = clock + 1]
  /\ UNCHANGED <<signIn, cookies, token, previous>>

Add(a, n) ==
  /\ command[a] = None /\ row[n] = None
  /\ Write(n, [version |-> 1, created |-> clock + 1, password |-> clock + 1])
  /\ Overlap(a, n) /\ UNCHANGED command

Remove(a, n) ==
  /\ command[a] = None /\ row[n] # None
  /\ Write(n, None)
  /\ Overlap(a, n) /\ UNCHANGED command

\* set_role, reset_password and sign_out_everywhere read the row ...
UpdateRead(a, n, reset) ==
  /\ command[a] = None /\ row[n] # None
  /\ command' = [command EXCEPT ![a] = [name |-> n, version |-> row[n].version, reset |-> reset]]
  /\ Overlap(a, n)
  /\ UNCHANGED <<row, signIn, cookies, token, previous, clock, changed>>

\* Mistake: a change of the role alone keeps the version.
UpdatedQuietly(r, c) ==
  [r EXCEPT !.version = IF c.reset THEN c.version + 1 ELSE @,
            !.password = IF c.reset THEN clock + 1 ELSE @]

\* ... and write the columns they changed, with the version after the one they read.
Updated(r, c) ==
  [r EXCEPT !.version = c.version + 1, !.password = IF c.reset THEN clock + 1 ELSE @]

UpdateWrite(a) ==
  LET c == command[a] IN
  /\ c # None /\ row[c.name] # None
  /\ Write(c.name, Updated(row[c.name], c))
  /\ command' = [command EXCEPT ![a] = None] /\ UNCHANGED overlapped

\* The row is gone: the statement hits none, and the command fails.
UpdateFails(a) ==
  /\ command[a] # None /\ row[command[a].name] = None
  /\ command' = [command EXCEPT ![a] = None]
  /\ UNCHANGED <<row, signIn, cookies, token, previous, clock, changed, overlapped>>

-----------------------------------------------------------------------------
(* Sign-ins.                                                                   *)
\* Mistake: the version alone ties a cookie to an account.
TagOfVersion(account) == <<account.version, 0>>

Tag(account) == <<account.version, account.created>>

\* The password was checked against the row as it is now.
Authenticate(s, n) ==
  /\ signIn[s] = None /\ row[n] # None
  /\ signIn' = [signIn EXCEPT ![s] = [name |-> n, version |-> row[n].version,
                                      created |-> row[n].created, asOf |-> clock]]
  /\ UNCHANGED <<row, command, cookies, token, previous, clock, changed, overlapped>>

SigningKey == IF SessionKey THEN SessionSecret ELSE token

Cookie(s) ==
  /\ signIn[s] # None
  /\ cookies' = cookies \cup {[name |-> signIn[s].name, tag |-> Tag(signIn[s]),
                               key |-> SigningKey, asOf |-> signIn[s].asOf]}
  /\ signIn' = [signIn EXCEPT ![s] = None]
  /\ UNCHANGED <<row, command, token, previous, clock, changed, overlapped>>

-----------------------------------------------------------------------------
(* Rotation of the token: a server is started with the new one and the old one *)
(* as the previous, and later without the previous.                            *)
Rotate ==
  /\ token < MaxTokens
  /\ token' = token + 1 /\ previous' = token
  /\ UNCHANGED <<row, command, signIn, cookies, clock, changed, overlapped>>

EndRotation ==
  /\ previous # None /\ previous' = None
  /\ UNCHANGED <<row, command, signIn, cookies, token, clock, changed, overlapped>>

\* Mistake: cookies are verified with the key that signs.
SigningKeyOnly == {SigningKey}

VerificationKeys ==
  {SigningKey} \cup (IF previous # None /\ ~SessionKey THEN {previous} ELSE {})

\* What _account_from_cookie lets through.
Accepted(c) ==
  /\ c.key \in VerificationKeys
  /\ row[c.name] # None /\ Tag(row[c.name]) = c.tag

-----------------------------------------------------------------------------
Next ==
  \/ \E a \in Admins :
       \/ UpdateWrite(a) \/ UpdateFails(a)
       \/ \E n \in Names : \/ Add(a, n) \/ Remove(a, n)
                           \/ \E reset \in BOOLEAN : UpdateRead(a, n, reset)
  \/ \E s \in SignIns : Cookie(s) \/ \E n \in Names : Authenticate(s, n)
  \/ Rotate \/ EndRotation

Spec == Init /\ [][Next]_vars

-----------------------------------------------------------------------------
(* "Every change signs the user out": a cookie that is accepted was given for  *)
(* a password checked after the last change of the account, whatever was added *)
(* or removed under its name. An account that two commands worked on at the    *)
(* same time is left out: both write the version after the one they read.      *)
ChangeSignsOut ==
  \A c \in cookies : Accepted(c) /\ c.name \notin overlapped => c.asOf >= changed[c.name]

(* What the docstring says, without exception.                                 *)
EveryChangeSignsOut == \A c \in cookies : Accepted(c) => c.asOf >= changed[c.name]

(* Nothing else signs a user out: a cookie that was accepted and is no more    *)
(* belongs to an account that was changed, or to a key that a rotation dropped *)
(* -- never at its start, and never with a session key of its own.             *)
OnlyChangeSignsOut ==
  \A c \in cookies : Accepted(c) /\ ~Accepted(c)' =>
    \/ changed'[c.name] # changed[c.name]
    \/ ~SessionKey /\ previous = c.key /\ previous' # c.key
=============================================================================
