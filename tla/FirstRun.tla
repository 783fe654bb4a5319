------------------------------ MODULE FirstRun ------------------------------
(***************************************************************************)
(* From an empty host to a logged-in operator: the setup wizard            *)
(* (wanfwctl init) with the admin-socket routes it posts to, the setup     *)
(* token it leaves for tier1, the account that token opens, and tier1's    *)
(* logins, login limiter and sessions.                                     *)
(*                                                                         *)
(* Every run of the wizard has a number, which stands for the answers the  *)
(* operator gave it: the credentials, the framework document and the token *)
(* of run n are the value n.  A browser submits passwords named after      *)
(* browsers; a password's hash is the password.  The limiter keeps a row   *)
(* per address and the rows do not touch each other: one is modelled.      *)
(***************************************************************************)
EXTENDS Integers, Sequences, FiniteSetsExt

CONSTANTS Terminals,     \* shells that may run wanfwctl init
          Browsers,      \* clients of tier1; also the passwords they know
          NoUser,        \* admin_user has no row
          Secrets,       \* how many credentials the wizard stores; 3 in the code
          MaxPolls,      \* polls of GET /status; 15 in the code
          TokenTtl,      \* TOKEN_TTL_MS
          SessionTtl,    \* SESSION_TTL_MS
          Window,        \* RATE_LIMIT_WINDOW_MS
          MaxAttempts,   \* RATE_LIMIT_MAX_ATTEMPTS
          MaxRuns,       \* bound: runs of the wizard
          MaxTime,       \* bound: the clock
          MaxSessions,   \* bound: sessions ever created
          MaxSeeds       \* bound: uses of seed-admin.mjs

ASSUME FirstRunAssumption ==
    /\ NoUser \notin Browsers /\ IsFiniteSet(Browsers)
    /\ {Secrets, MaxPolls, Window, MaxAttempts} \subseteq Nat \ {0}
    /\ {TokenTtl, SessionTtl, MaxRuns, MaxTime, MaxSessions, MaxSeeds} \subseteq Nat

VARIABLES wizard,     \* the wizard in each terminal
          runs,       \* runs started so far
          trusted,    \* production builtins: "none", "some" or "all" trusted
          secret,     \* the run whose value each credential file holds, or 0
          framework,  \* the run whose document is stored, or 0
          token,      \* setup-token.json
          admin,      \* the password of the one account, or NoUser
          request,    \* the server action each browser waits for
          cookie,     \* the session id in each browser, or 0
          sessions,   \* the rows of sessions, by id
          limit,      \* the row of login_attempts, or NoRow
          now,
          seeds,
          tries,      \* history: attempts let through in the last Window, each by its
                      \* instant and its number in its row
          inForce     \* history: the accounts in force since the request began

wizardVars == <<wizard, runs, trusted, secret, framework>>
tierVars == <<admin, request, cookie, sessions, limit, seeds, tries, inForce>>
firstRunVars == <<wizard, runs, trusted, secret, framework, token, admin, request,
          cookie, sessions, limit, now, seeds, tries, inForce>>

NoToken == [id |-> 0, at |-> 0]
NoRow == [count |-> 0, start |-> 0]
NoRequest == [pc |-> "idle", pw |-> NoUser, proof |-> NoUser, token |-> 0]
IdleWizard == [pc |-> "idle", run |-> 0, k |-> 0, alone |-> "yes"]

FirstRunInit ==
    /\ wizard = [t \in Terminals |-> IdleWizard]
    /\ runs = 0 /\ trusted = "none" /\ framework = 0
    /\ secret = [s \in 1..Secrets |-> 0]
    /\ token = NoToken /\ admin = NoUser /\ seeds = 0
    /\ request = [b \in Browsers |-> NoRequest]
    /\ cookie = [b \in Browsers |-> 0]
    /\ sessions = <<>>
    /\ limit = NoRow /\ now = 0
    /\ tries = {}
    /\ inForce = [b \in Browsers |-> {}]

-----------------------------------------------------------------------------
(* The wizard.  A request to the admin socket may be answered, may be      *)
(* refused, or may have its effect although its answer never arrives: the  *)
(* client gives up after five seconds.  Whatever is not a 2xx ends the run *)
(* and leaves what the earlier steps did.                                  *)

At(t, pc) == wizard[t].pc = pc

Goes(t, pc) == wizard' = [wizard EXCEPT ![t].pc = pc, ![t].k = 0]

Ends(t) == wizard' = [wizard EXCEPT ![t] = IdleWizard]

\* The router answers 400 or 500, or nobody listens.
Refused(t) == Ends(t)

\* GET /framework, the question whether to overwrite it, the operator's answers
\* and, for macvlan, the probe: only a run that passes them changes anything.
InitStarts(t) ==
    /\ At(t, "idle") /\ runs < MaxRuns
    /\ runs' = runs + 1
    /\ LET others == {u \in Terminals \ {t} : ~At(u, "idle")} IN
       wizard' = [u \in Terminals |->
           IF u = t
           THEN [pc |-> "trust", run |-> runs + 1, k |-> 0,
                 alone |-> IF others = {} THEN "yes" ELSE "no"]
           ELSE IF u \in others THEN [wizard[u] EXCEPT !.alone = "no"] ELSE wizard[u]]
    /\ UNCHANGED <<trusted, secret, framework>>

\* POST /plugins/trust-builtins trusts one builtin after the other.
Trusts(t) ==
    /\ At(t, "trust")
    /\ \/ trusted' = "all" /\ (Goes(t, "secrets") \/ Ends(t))
       \/ /\ trusted' = IF trusted = "all" THEN "all" ELSE "some"
          /\ Ends(t)
    /\ UNCHANGED <<runs, secret, framework>>

\* Wrong on purpose: a credential that is there already is kept.
PutSecretIfNone(k, n) == secret' = [secret EXCEPT ![k] = IF @ = 0 THEN n ELSE @]

\* putSecret overwrites the file of that name.
PutSecret(k, n) == secret' = [secret EXCEPT ![k] = n]

\* POST /secrets, once per credential.
Stores(t) ==
    LET k == wizard[t].k + 1 IN
    /\ At(t, "secrets")
    /\ \/ /\ PutSecret(k, wizard[t].run)
          /\ \/ IF k = Secrets THEN Goes(t, "framework")
                ELSE wizard' = [wizard EXCEPT ![t].k = k]
             \/ Ends(t)
       \/ Refused(t) /\ UNCHANGED secret
    /\ UNCHANGED <<runs, trusted, framework>>

\* POST /framework validates the document before it stores it.
WritesFramework(t) ==
    /\ At(t, "framework")
    /\ \/ framework' = wizard[t].run /\ (Goes(t, "wait") \/ Ends(t))
       \/ Refused(t) /\ UNCHANGED framework
    /\ UNCHANGED <<runs, trusted, secret>>

\* GET /status, at most MaxPolls times, until the phase is live or degraded;
\* a poll that fails ends the run.  GET /network/wan-ip cannot fail it.
Polls(t) ==
    LET k == wizard[t].k + 1 IN
    /\ At(t, "wait")
    /\ \/ Goes(t, "token")
       \/ /\ k < MaxPolls
          /\ wizard' = [wizard EXCEPT ![t].k = k]
       \/ Ends(t)
    /\ UNCHANGED <<runs, trusted, secret, framework>>

IssuesToken(t) ==
    /\ At(t, "token")
    /\ token' = [id |-> wizard[t].run, at |-> now]
    /\ Goes(t, "info")
    /\ UNCHANGED <<runs, trusted, secret, framework>>

\* POST /operator-info is best effort; the run then prints its token.
SendsInfo(t) ==
    /\ At(t, "info")
    /\ Ends(t)
    /\ UNCHANGED <<runs, trusted, secret, framework>>

WizardStep(t) ==
    \/ /\ Trusts(t) \/ Stores(t) \/ WritesFramework(t) \/ Polls(t) \/ SendsInfo(t)
       /\ UNCHANGED token
    \/ IssuesToken(t)

\* Ctrl-C, or the container of wanfwctl stops.
Killed(t) ==
    /\ ~At(t, "idle")
    /\ Ends(t)
    /\ UNCHANGED <<runs, trusted, secret, framework>>

-----------------------------------------------------------------------------
(* Sessions and the login limiter (session-db.ts).                         *)

IsSessionValid(id) == id # 0 /\ sessions[id].row = "live" /\ sessions[id].exp > now

\* createSession, and the cookie the browser gets; a session the browser had
\* before keeps its row.
CreateSession(b) ==
    /\ sessions' = Append(sessions, [row |-> "live", exp |-> now + SessionTtl])
    /\ cookie' = [cookie EXCEPT ![b] = Len(sessions) + 1]

WindowOver == limit = NoRow \/ now - limit.start > Window

\* Wrong on purpose: one attempt too many per window.
LimitReachedLate == limit.count > MaxAttempts

LimitReached == limit.count >= MaxAttempts

\* A refused attempt writes nothing.
RefusedRow == limit

\* Wrong on purpose: an argon2 error counts as a match.
VerifyPasswordLax(hash, pw) == TRUE

VerifyPassword(hash, pw) == hash = pw

\* The account's password becomes pw; the request `done` (or none) is over.
Becomes(pw, done) ==
    /\ admin' = pw
    /\ inForce' = [b \in Browsers |->
          IF b \in done \/ request[b].pc = "idle" THEN {} ELSE inForce[b] \cup {pw}]

Waiting == {b \in Browsers : request[b].pc # "idle"}

Asks(b, r) ==
    /\ request[b].pc = "idle"
    /\ Len(sessions) + Cardinality(Waiting) < MaxSessions
    /\ request' = [request EXCEPT ![b] = r]
    /\ inForce' = [inForce EXCEPT ![b] = {admin}]

Answered(b) ==
    /\ request' = [request EXCEPT ![b] = NoRequest]
    /\ inForce' = [inForce EXCEPT ![b] = {}]

-----------------------------------------------------------------------------
(* Server actions.  Each runs without interruption up to its next await.   *)

\* Wrong on purpose: setup forgets to ask whether the account exists.
SetupStartsAlways(b, tok) ==
    /\ Asks(b, [pc |-> "token", pw |-> b, proof |-> NoUser, token |-> tok])
    /\ UNCHANGED <<admin, cookie, sessions, limit, tries>>

SetupStarts(b, tok) ==
    /\ admin = NoUser
    /\ Asks(b, [pc |-> "token", pw |-> b, proof |-> NoUser, token |-> tok])
    /\ UNCHANGED <<admin, cookie, sessions, limit, tries>>

\* setup-token.json was read; a form whose passwords are short or differ is
\* refused as a bad token is.
SetupVerifies(b) ==
    /\ request[b].pc = "token"
    /\ \/ /\ token # NoToken /\ request[b].token = token.id
          /\ now - token.at \in 0..TokenTtl
          /\ request' = [request EXCEPT ![b].pc = "hash"]
          /\ UNCHANGED inForce
       \/ Answered(b)
    /\ UNCHANGED <<admin, cookie, sessions, limit, tries>>

SetupFinishes(b) ==
    /\ request[b].pc = "hash"
    /\ Becomes(request[b].pw, {b})
    /\ CreateSession(b)
    /\ request' = [request EXCEPT ![b] = NoRequest]
    /\ UNCHANGED <<limit, tries>>

\* The limiter lets the attempt through and records it; without an account it
\* is answered at once, otherwise the stored hash is read and verified against.
LoginStarts(b, pw) ==
    /\ WindowOver \/ ~LimitReached
    /\ limit' = IF WindowOver THEN [count |-> 1, start |-> now]
                              ELSE [limit EXCEPT !.count = @ + 1]
    /\ tries' = tries \cup {<<now, limit'.count>>}
    /\ \/ /\ admin # NoUser
          /\ Asks(b, [pc |-> "verify", pw |-> pw, proof |-> admin, token |-> 0])
       \/ /\ admin = NoUser /\ request[b].pc = "idle"
          /\ UNCHANGED <<request, inForce>>
    /\ UNCHANGED <<admin, cookie, sessions>>

LoginRefused(b) ==
    /\ request[b].pc = "idle"
    /\ ~WindowOver /\ LimitReached
    /\ limit' = RefusedRow
    /\ UNCHANGED <<admin, request, cookie, sessions, tries, inForce>>

LoginFinishes(b) ==
    /\ request[b].pc = "verify"
    /\ IF VerifyPassword(request[b].proof, request[b].pw)
       THEN /\ limit' = NoRow
            /\ tries' = {}
            /\ CreateSession(b)
       ELSE UNCHANGED <<limit, tries, sessions, cookie>>
    /\ Answered(b)
    /\ UNCHANGED admin

\* The middleware lets a browser past /login and /setup only with a valid
\* session; logging out is behind it.
Logout(b) ==
    /\ IsSessionValid(cookie[b])
    /\ sessions' = [sessions EXCEPT ![cookie[b]].row = "deleted"]
    /\ cookie' = [cookie EXCEPT ![b] = 0]
    /\ UNCHANGED <<admin, request, limit, tries, inForce>>

\* seed-admin.mjs writes the hash into the same table from outside.
Seed(pw) ==
    /\ seeds < MaxSeeds
    /\ seeds' = seeds + 1
    /\ Becomes(pw, {})
    /\ UNCHANGED <<request, cookie, sessions, limit, tries>>

Tick ==
    /\ now < MaxTime
    /\ now' = now + 1
    /\ tries' = {a \in tries : a[1] >= now + 1 - Window}

-----------------------------------------------------------------------------

RequestStep(b) == SetupVerifies(b) \/ SetupFinishes(b) \/ LoginFinishes(b)

Clicks(b) ==
    \/ \E tok \in 1..runs : SetupStarts(b, tok)
    \/ \E pw \in Browsers : LoginStarts(b, pw)
    \/ LoginRefused(b)
    \/ Logout(b)

FirstRunNext ==
    \/ \E t \in Terminals :
          \/ WizardStep(t) /\ UNCHANGED <<tierVars, now>>
          \/ (InitStarts(t) \/ Killed(t)) /\ UNCHANGED <<tierVars, now, token>>
    \/ \E b \in Browsers :
          \/ (RequestStep(b) \/ Clicks(b)) /\ UNCHANGED <<wizardVars, token, seeds, now>>
    \/ \E pw \in Browsers : Seed(pw) /\ UNCHANGED <<wizardVars, token, now>>
    \/ Tick /\ UNCHANGED <<wizardVars, token, admin, request, cookie, sessions,
                           limit, seeds, inForce>>

FirstRunSpec == FirstRunInit /\ [][FirstRunNext]_firstRunVars

-----------------------------------------------------------------------------
(* Properties.                                                             *)

WizardRecords ==
    [pc : {"idle", "trust", "secrets", "framework", "wait", "token", "info"},
     run : 0..MaxRuns, k : 0..(Secrets + MaxPolls), alone : {"yes", "no"}]
RequestRecords ==
    [pc : {"idle", "token", "hash", "verify"}, pw : Browsers \cup {NoUser},
     proof : Browsers \cup {NoUser}, token : 0..MaxRuns]
SessionRecords == [row : {"live", "deleted"}, exp : SessionTtl..(MaxTime + SessionTtl)]

WizardTypeOK ==
    /\ wizard \in [Terminals -> WizardRecords]
    /\ runs \in 0..MaxRuns /\ trusted \in {"none", "some", "all"}
    /\ secret \in [1..Secrets -> 0..MaxRuns]
    /\ framework \in 0..MaxRuns
    /\ token \in [id : 0..MaxRuns, at : 0..MaxTime]

LoginTypeOK ==
    /\ admin \in Browsers \cup {NoUser}
    /\ request \in [Browsers -> RequestRecords]
    /\ \A b \in Browsers : request[b].pc = "verify" => request[b].proof # NoUser
    /\ sessions \in Seq(SessionRecords)
    /\ Len(sessions) <= MaxSessions
    /\ cookie \in [Browsers -> 0..Len(sessions)]
    /\ seeds \in 0..MaxSeeds
    /\ inForce \in [Browsers -> SUBSET (Browsers \cup {NoUser})]

LimitTypeOK ==
    /\ limit \in [count : Nat, start : 0..MaxTime]
    /\ now \in 0..MaxTime
    /\ tries \subseteq (0..MaxTime) \X Nat

\* Types of the variables.
FirstRunTypeOK == WizardTypeOK /\ LoginTypeOK /\ LimitTypeOK

\* The setup token is the wizard's last word: while setup-token.json exists, a
\* wizard got through all of its steps, whatever runs died half-way or
\* overlapped, so the host has its builtins trusted, every credential stored
\* and a framework document.
TokenMeansReady ==
    token # NoToken =>
        trusted = "all" /\ framework # 0 /\ \A s \in 1..Secrets : secret[s] # 0

\* A wizard that no other wizard overlapped leaves nothing of an earlier run
\* behind: when it has written its token, the credentials, the document and the
\* token are all its own, even if an earlier run died between two of its steps.
WizardLeavesOwn ==
    \A t \in Terminals :
        At(t, "info") /\ wizard[t].alone = "yes" =>
            /\ token.id = wizard[t].run
            /\ framework = wizard[t].run
            /\ \A s \in 1..Secrets : secret[s] = wizard[t].run

\* What wizards leave behind: types, a finished installation under every token
\* (TokenMeansReady), and no mixture of two runs (WizardLeavesOwn).
FirstRunInv == FirstRunTypeOK /\ TokenMeansReady /\ WizardLeavesOwn

Tried == Cardinality(tries)

\* The limiter says of itself "Sliding-window login rate limit": in every
\* interval of length Window at most MaxAttempts failed attempts get through.
\* The window is fixed to its first attempt, and two of them can meet.
SlidingWindow == Tried <= MaxAttempts

\* What the fixed windows do guarantee: in no interval of length Window do
\* more than twice MaxAttempts failed attempts get through.
AttemptsBounded == Tried <= 2 * MaxAttempts

\* Nobody is locked out by the attempts that were refused: whenever the limiter
\* would refuse, MaxAttempts attempts got through within the last Window.
LockoutEarned == ~WindowOver /\ LimitReached => Tried >= MaxAttempts

\* The login limiter is neither lax (AttemptsBounded) nor harsh (LockoutEarned).
LimiterFair == AttemptsBounded /\ LockoutEarned

\* setupAction: once an account exists "this action -- and the page -- are
\* permanently dead, regardless of token", so only seed-admin.mjs changes the
\* password of an account.  The check is made before two awaits, and a setup
\* that passed it overwrites the account made meanwhile.
SetupIsDead == (admin # NoUser /\ admin' # admin) => seeds' # seeds
SetupStaysDead == [][SetupIsDead]_firstRunVars

\* What the early check does guarantee, whatever tokens the wizard issues
\* later: a setup changes the password of an existing account only when it
\* came in before there was one and overlapped the setup that made it.
PasswordIsSettled ==
    (admin # NoUser /\ admin' # admin) =>
        \/ seeds' # seeds
        \/ \E b \in Browsers : /\ request[b].pc = "hash" /\ request'[b].pc = "idle"
                              /\ NoUser \in inForce[b]
PasswordSettles == [][PasswordIsSettled]_firstRunVars

\* A login succeeds only with a password that was the account's at some moment
\* since the request came in, although the hash is read before the await and
\* the account may change during it.  What it earns is a session of its own,
\* and a session that ended, by logout or by its age, never admits anyone again.
SessionIsEarned ==
    /\ \A b \in Browsers :
          cookie'[b] \notin {0, cookie[b]} =>
             /\ cookie'[b] \notin DOMAIN sessions
             /\ request[b].pc = "verify" => request[b].pw \in inForce[b]
    /\ \A id \in 1..Len(sessions) : ~IsSessionValid(id) => ~IsSessionValid(id)'
SessionsEarned == [][SessionIsEarned]_firstRunVars

-----------------------------------------------------------------------------
(* The inductive invariants.                                               *)

PastSecrets == {"framework", "wait", "token", "info"}
PastFramework == {"wait", "token", "info"}

\* Behind TokenMeansReady: what a wizard has got through has been done.
HasDone(t) ==
    LET w == wizard[t] IN
    /\ w.pc # "idle" => w.run # 0
    /\ w.pc \notin {"idle", "trust"} => trusted = "all"
    /\ w.pc = "secrets" => w.k < Secrets /\ \A s \in 1..w.k : secret[s] # 0
    /\ w.pc \in PastSecrets => \A s \in 1..Secrets : secret[s] # 0
    /\ w.pc \in PastFramework => framework # 0
    /\ w.pc = "wait" => w.k < MaxPolls

\* Behind WizardLeavesOwn: while a wizard is alone no other runs, and what it
\* has got through is its own.
HasLeftOwn(t) ==
    LET w == wizard[t] IN
    w.alone = "yes" /\ w.pc # "idle" =>
        /\ \A u \in Terminals \ {t} : wizard[u].pc = "idle"
        /\ w.pc = "secrets" => \A s \in 1..w.k : secret[s] = w.run
        /\ w.pc \in PastSecrets => \A s \in 1..Secrets : secret[s] = w.run
        /\ w.pc \in PastFramework => framework = w.run
        /\ w.pc = "info" => token.id = w.run

WizardIInv == TokenMeansReady /\ \A t \in Terminals : HasDone(t) /\ HasLeftOwn(t)

\* Behind PasswordSettles and SessionsEarned: a setup under way came in before
\* there was an account, a login read its hash after it came in, and every
\* request that waits has room for its session.
RequestIInv ==
    /\ \A b \in Browsers :
         /\ request[b].pc \in {"token", "hash"} => NoUser \in inForce[b]
         /\ request[b].pc = "verify" => request[b].proof \in inForce[b]
    /\ Len(sessions) + Cardinality(Waiting) <= MaxSessions

\* Behind LimiterFair: the attempts of the last Window are those of the row
\* and those of the row before it, neither of which let more than MaxAttempts
\* through; while the row lasts none of its own is forgotten.
Earlier == {a \in tries : a[1] < limit.start}
LimiterIInv ==
    /\ limit = NoRow => tries = {}
    /\ limit.count <= MaxAttempts /\ limit.start <= now
    /\ \A a \in tries : /\ now - Window <= a[1] /\ a[1] <= now /\ a[1] <= limit.start + Window
                        /\ a[1] >= limit.start => a[2] <= limit.count
    /\ IsFiniteSet(tries)
    /\ Cardinality(Earlier) <= MaxAttempts
    /\ Cardinality(tries \ Earlier) <= limit.count
    /\ now - limit.start <= Window => Cardinality(tries \ Earlier) = limit.count

FirstRunIInv == FirstRunTypeOK /\ WizardIInv /\ RequestIInv /\ LimiterIInv
=============================================================================
