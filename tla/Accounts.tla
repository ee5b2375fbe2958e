------------------------------- MODULE Accounts -------------------------------
(***************************************************************************)
(* Accounts: signing in by the link or by the code of one e-mail, sessions *)
(* (overtake/services/auth_service.py, routes/auth.py, routes/deps.py),    *)
(* linking an FPL entry and deleting the account (routes/profile.py), the  *)
(* leagues a free account tracks and the rivals it has chosen              *)
(* (routes/leagues.py, services/entitlements.py), and the retention sweep  *)
(* that removes deleted accounts (workers/tasks.py).                       *)
(*                                                                         *)
(* A request is one transaction: what it reads first is committed state,   *)
(* its writes are seen when it ends.  A request that is one statement, or  *)
(* decides nothing from what it read, is one step.  E-mails are sent in    *)
(* between and not modelled.  Time is in days; a link lives for minutes,   *)
(* so it expires on its own.                                               *)
(*                                                                         *)
(* A definition whose name continues another's after an underscore is that *)
(* operation with one slip in it, used by the sensitivity runs only.       *)
(***************************************************************************)
EXTENDS Integers, Sequences, FiniteSets, FiniteSetsExt

CONSTANTS
  Users,        \* e-mail addresses
  Members,      \* those with an account, and a session, to begin with
  Entries,      \* FPL entry ids
  Picks,        \* leagues to track, rivals to choose
  Requests,     \* requests and sweeps served at the same time
  Limit,        \* free_league_limit, free_dossiers_per_season
  MaxAttempts,  \* MAX_CODE_ATTEMPTS
  MaxSessions,  \* MAX_SESSIONS_PER_USER
  SessionTtl,   \* settings.session_ttl_days
  PurgeAfter,   \* the thirty days of retention_sweep
  MaxDay,       \* bound on time
  MaxRequests,  \* bound on requests
  None

Kinds == {"league", "rival"}

ASSUME AccountsAssumption ==
  /\ IsFiniteSet(Requests) /\ Members \subseteq Users
  /\ Limit \in Nat \ {0} /\ MaxAttempts \in Nat \ {0} /\ MaxSessions \in Nat \ {0}
  /\ SessionTtl \in Nat \ {0} /\ PurgeAfter \in Nat /\ MaxDay \in Nat /\ MaxRequests \in Nat
  /\ None \notin Nat \cup Entries \cup Users \cup {"link", "code", "signin", "delete", "entry", "pick", "sweep"}

VARIABLES
  day,
  user,      \* the users row of each address
  tokens,    \* auth_tokens of each, in the order they were created
  sessions,  \* sessions of each, in the order they were created
  picks,     \* user_leagues, and the free_rival rows of usage_counters
  request,
  asked,     \* requests so far
  signIns,   \* history: sign-ins each token gave
  shared     \* history: entries that came to two accounts in a known way

vars == <<day, user, tokens, sessions, picks, request, asked, signIns, shared>>

Days    == 0..MaxDay
Account == [deletedOn : Days \cup {None}, verified : BOOLEAN, entry : Entries \cup {None},
            deletion : Nat]   \* history: the request that deleted it last
Token   == [state : {"live", "expired", "consumed", "gone"}, attempts : Nat]
Session == [state : {"live", "revoked", "gone"}, until : Nat,
            after : Nat,         \* history: the deletion its sign-in had read
            beside : SUBSET Nat] \* history: those that overlapped its sign-in
Idle    == [op |-> None]
Request ==
  [op : {"link", "code", "signin", "delete", "entry", "pick", "sweep"}, user : Users \cup {None},
   sees : {"none", "live", "deleted"}, token : Nat, attempts : Nat, seen : SUBSET Nat,
   entry : Entries \cup {None}, pick : (Kinds \X Picks) \cup {None}, stale : SUBSET Users,
   deletion : Nat]            \* history: the deletion it is, or the last one it has read

TypeOK ==
  /\ day \in Days
  /\ user \in [Users -> Account \cup {None}]
  /\ tokens \in [Users -> Seq(Token)] /\ sessions \in [Users -> Seq(Session)]
  /\ picks \in [Users -> SUBSET (Kinds \X Picks)]
  /\ request \in [Requests -> Request \cup {Idle}]
  /\ asked \in 0..MaxRequests
  /\ signIns \in [Users -> Seq(Nat)] /\ \A u \in Users : Len(signIns[u]) = Len(tokens[u])
  /\ shared \subseteq Entries
  /\ \A u \in Users : user[u] = None => picks[u] = {}

ASSUME NoAccountAssumption == None \notin Account

NewAccount(verified) == [deletedOn |-> None, verified |-> verified, entry |-> None, deletion |-> 0]

FirstSession == [state |-> "live", until |-> SessionTtl, after |-> 0, beside |-> {}]

Init ==
  /\ day = 0
  /\ user = [u \in Users |-> IF u \in Members THEN NewAccount(TRUE) ELSE None]
  /\ tokens = [u \in Users |-> << >>] /\ signIns = [u \in Users |-> << >>]
  /\ sessions = [u \in Users |-> IF u \in Members
                                  THEN <<FirstSession>>
                                  ELSE << >>]
  /\ picks = [u \in Users |-> {}]
  /\ request = [r \in Requests |-> Idle]
  /\ asked = 0 /\ shared = {}

Status(u) == IF user[u] = None THEN "none" ELSE IF user[u].deletedOn = None THEN "live" ELSE "deleted"
Live(u)   == Status(u) = "live"

(* resolve_session and current_user.                                         *)
Valid(u, s) == sessions[u][s].state = "live" /\ sessions[u][s].until > day /\ Live(u)
SignedIn(u) == \E s \in DOMAIN sessions[u] : Valid(u, s)

Blank == [op |-> None, user |-> None, sees |-> "live", token |-> 0, attempts |-> 0, seen |-> {},
          entry |-> None, pick |-> None, stale |-> {}, deletion |-> 0]

Asks      == asked < MaxRequests /\ asked' = asked + 1
Begin(r, what) == request[r] = Idle /\ request' = [request EXCEPT ![r] = what]
Doing(r, op)   == request[r] # Idle /\ request[r].op = op
Ends(r)        == request' = [request EXCEPT ![r] = Idle]

-----------------------------------------------------------------------------
(* request_magic_link.  Who is new gets an account, who had deleted theirs   *)
(* has it back, with everything that was linked to it.                       *)
RequestLink(r, u) ==
  /\ Begin(r, [Blank EXCEPT !.op = "link", !.user = u, !.sees = Status(u)]) /\ Asks
  /\ UNCHANGED <<day, user, tokens, sessions, picks, signIns, shared>>

OthersWith(u, e) == {v \in Users \ {u} : Live(v) /\ user[v].entry = e}

IssueLink(r) ==
  LET u == request[r].user
  IN /\ Doing(r, "link") /\ (request[r].sees = "none") = (user[u] = None)
     /\ tokens' = [tokens EXCEPT ![u] = Append(@, [state |-> "live", attempts |-> 0])]
     /\ signIns' = [signIns EXCEPT ![u] = Append(@, 0)]
     /\ user' = [user EXCEPT ![u] =
          CASE request[r].sees = "none"    -> NewAccount(FALSE)
            [] request[r].sees = "deleted" -> [@ EXCEPT !.deletedOn = None]
            [] OTHER                       -> @]
     /\ shared' = shared \cup
          {e \in Entries : /\ request[r].sees = "deleted" /\ Status(u) = "deleted"
                           /\ user[u].entry = e /\ OthersWith(u, e) # {}}
     /\ Ends(r)
     /\ UNCHANGED <<day, sessions, picks, asked>>

(* Somebody else's account under that address, or none any more.             *)
LinkConflicts(r) ==
  /\ Doing(r, "link") /\ (request[r].sees = "none") # (user[request[r].user] = None)
  /\ Ends(r)
  /\ UNCHANGED <<day, user, tokens, sessions, picks, asked, signIns, shared>>

TokenExpires(u, t) ==
  /\ tokens[u][t].state = "live"
  /\ tokens' = [tokens EXCEPT ![u][t].state = "expired"]
  /\ UNCHANGED <<day, user, sessions, picks, request, asked, signIns, shared>>

-----------------------------------------------------------------------------
(* consume_magic_link: a conditional update, whose row stays locked until    *)
(* the request ends; then create_session, which prunes what it can see.      *)
Locked(u, t) ==
  \E q \in Requests : Doing(q, "signin") /\ request[q].user = u /\ request[q].token = t
OpenSessions(u) == {s \in DOMAIN sessions[u] : sessions[u][s].state = "live"}

SigningIn(u, t, d) ==
  [Blank EXCEPT !.op = "signin", !.user = u, !.token = t, !.seen = OpenSessions(u), !.deletion = d]

OpenLink(r, u, t) ==
  /\ tokens[u][t].state = "live" /\ ~Locked(u, t) /\ Live(u)
  /\ Begin(r, SigningIn(u, t, user[u].deletion)) /\ Asks
  /\ UNCHANGED <<day, user, tokens, sessions, picks, signIns, shared>>

(* The account was deleted since: the callback answers with a redirect, which *)
(* is no exception, and the token is used up.                                *)
OpenDeadLink(u, t) ==
  /\ tokens[u][t].state = "live" /\ ~Locked(u, t) /\ ~Live(u)
  /\ tokens' = [tokens EXCEPT ![u][t].state = "consumed"]
  /\ Asks
  /\ UNCHANGED <<day, user, sessions, picks, request, signIns, shared>>

(* consume_sign_in_code looks at the newest token that is live.              *)
LiveTokens(u) == {t \in DOMAIN tokens[u] : tokens[u][t].state = "live"}

TypeCode(r, u) ==
  /\ Live(u) /\ LiveTokens(u) # {}
  /\ LET t == Max(LiveTokens(u))
     IN Begin(r, [Blank EXCEPT !.op = "code", !.user = u, !.token = t,
                               !.attempts = tokens[u][t].attempts, !.deletion = user[u].deletion])
  /\ Asks
  /\ UNCHANGED <<day, user, tokens, sessions, picks, signIns, shared>>

(* A wrong code is counted, one more than was read; a token with too many is *)
(* burned.  Both commit before the refusal.                                  *)
CodeRefused(r) ==
  LET u == request[r].user
      t == request[r].token
  IN /\ Doing(r, "code") /\ ~Locked(u, t) /\ tokens[u][t].state # "gone"
     /\ tokens' = IF request[r].attempts >= MaxAttempts
                  THEN [tokens EXCEPT ![u][t].state = "consumed"]
                  ELSE [tokens EXCEPT ![u][t].attempts = request[r].attempts + 1]
     /\ Ends(r)
     /\ UNCHANGED <<day, user, sessions, picks, asked, signIns, shared>>

(* The right one takes the token by the same update as the link.             *)
Unused_AsRead(u, t) == tokens[u][t].state # "gone"
Unused(u, t) == tokens[u][t].state \in {"live", "expired"}

CodeRight(r) ==
  LET u == request[r].user
      t == request[r].token
  IN /\ Doing(r, "code") /\ request[r].attempts < MaxAttempts
     /\ ~Locked(u, t) /\ Unused(u, t)
     /\ request' = [request EXCEPT ![r] = SigningIn(u, t, request[r].deletion)]
     /\ UNCHANGED <<day, user, tokens, sessions, picks, asked, signIns, shared>>

CodeLate(r) ==
  /\ Doing(r, "code")
  /\ ~Locked(request[r].user, request[r].token) /\ ~Unused(request[r].user, request[r].token)
  /\ Ends(r)
  /\ UNCHANGED <<day, user, tokens, sessions, picks, asked, signIns, shared>>

(* _prune_sessions: the oldest of those it read, beyond MAX_SESSIONS_PER_USER.*)
Pruned(seen) == {s \in seen : Cardinality({o \in seen : o > s}) >= MaxSessions}

Revoked(u, ss) == [s \in DOMAIN sessions[u] |->
  IF s \in ss THEN [sessions[u][s] EXCEPT !.state = "revoked"] ELSE sessions[u][s]]

(* The deletions whose UPDATE of sessions, or whose end, a sign-in may have   *)
(* crossed: those under way when it commits, and one that ended since it had  *)
(* read the account.                                                         *)
Beside(u, read) == {request[q].deletion : q \in {p \in Requests : Doing(p, "delete") /\ request[p].user = u}}
                     \cup ({user[u].deletion} \ {read})

(* The account is not looked at again: a sign-in that read it before its      *)
(* deletion stores its session after it all the same.                        *)
SignIn(r) ==
  LET u == request[r].user
  IN /\ Doing(r, "signin")
     /\ tokens' = [tokens EXCEPT ![u][request[r].token].state = "consumed"]
     /\ sessions' = [sessions EXCEPT ![u] = Append(Revoked(u, Pruned(request[r].seen)),
          [state |-> "live", until |-> day + SessionTtl,
           after |-> request[r].deletion, beside |-> Beside(u, request[r].deletion)])]
     /\ user' = [user EXCEPT ![u].verified = TRUE]
     /\ signIns' = [signIns EXCEPT ![u][request[r].token] = @ + 1]
     /\ Ends(r)
     /\ UNCHANGED <<day, picks, asked, shared>>

-----------------------------------------------------------------------------
(* resolve_session refreshes the rolling expiry.                             *)
UseSession(u, s) ==
  /\ Valid(u, s) /\ sessions[u][s].until # day + SessionTtl
  /\ sessions' = [sessions EXCEPT ![u][s].until = day + SessionTtl]
  /\ UNCHANGED <<day, user, tokens, picks, request, asked, signIns, shared>>

Logout(u, s) ==
  /\ Valid(u, s) /\ Asks
  /\ sessions' = [sessions EXCEPT ![u] = Revoked(u, {s})]
  /\ UNCHANGED <<day, user, tokens, picks, request, signIns, shared>>

LogoutEverywhere(u) ==
  /\ SignedIn(u) /\ Asks
  /\ sessions' = [sessions EXCEPT ![u] = Revoked(u, OpenSessions(u))]
  /\ UNCHANGED <<day, user, tokens, picks, request, signIns, shared>>

(* delete_me: the sessions that are there are revoked, then the account is   *)
(* marked as deleted and an e-mail sent; all of it is seen when it ends, and *)
(* a session stored meanwhile is not among them.  Who writes one of its rows *)
(* meanwhile would wait for it, which is left out: they end sessions too.    *)
DeleteAccount(r, u) ==
  /\ SignedIn(u)
  /\ Begin(r, [Blank EXCEPT !.op = "delete", !.user = u, !.seen = OpenSessions(u),
                            !.deletion = asked + 1]) /\ Asks
  /\ UNCHANGED <<day, user, tokens, sessions, picks, signIns, shared>>

CloseAccount_KeepsSessions(r) ==
  /\ Doing(r, "delete")
  /\ user' = [user EXCEPT ![request[r].user].deletedOn = day,
                          ![request[r].user].deletion = request[r].deletion]
  /\ Ends(r)
  /\ UNCHANGED <<day, sessions, tokens, picks, asked, signIns, shared>>

CloseAccount(r) ==
  LET u == request[r].user
  IN /\ Doing(r, "delete")
     /\ user' = [user EXCEPT ![u].deletedOn = day, ![u].deletion = request[r].deletion]
     /\ sessions' = [sessions EXCEPT ![u] = Revoked(u, request[r].seen)]
     /\ Ends(r)
     /\ UNCHANGED <<day, tokens, picks, asked, signIns, shared>>

-----------------------------------------------------------------------------
(* update_me refuses an entry of another account, as it is when it asks.     *)
ClaimEntry_Unchecked(r, u, e) ==
  /\ SignedIn(u) /\ user[u].entry # e
  /\ Begin(r, [Blank EXCEPT !.op = "entry", !.user = u, !.entry = e,
                            !.sees = IF OthersWith(u, e) = {} THEN "none" ELSE "live"]) /\ Asks
  /\ UNCHANGED <<day, user, tokens, sessions, picks, signIns, shared>>

ClaimEntry(r, u, e) ==
  /\ SignedIn(u) /\ user[u].entry # e /\ OthersWith(u, e) = {}
  /\ Begin(r, [Blank EXCEPT !.op = "entry", !.user = u, !.entry = e, !.sees = "none"]) /\ Asks
  /\ UNCHANGED <<day, user, tokens, sessions, picks, signIns, shared>>

StoreEntry(r) ==
  LET u == request[r].user
      e == request[r].entry
  IN /\ Doing(r, "entry") /\ user[u] # None
     /\ user' = [user EXCEPT ![u].entry = e]
     /\ shared' = IF request[r].sees = "none" /\ OthersWith(u, e) # {} THEN shared \cup {e} ELSE shared
     /\ Ends(r)
     /\ UNCHANGED <<day, tokens, sessions, picks, asked, signIns>>

(* track_league and choose_free_rival count the rows there are, then insert. *)
Chosen(u, kind) == {p \in picks[u] : p[1] = kind}

Choose_Recount(r, u, kind, x) ==
  /\ SignedIn(u) /\ <<kind, x>> \notin picks[u] /\ Cardinality(Chosen(u, kind)) <= Limit
  /\ Begin(r, [Blank EXCEPT !.op = "pick", !.user = u, !.pick = <<kind, x>>]) /\ Asks
  /\ UNCHANGED <<day, user, tokens, sessions, picks, signIns, shared>>

Choose(r, u, kind, x) ==
  /\ SignedIn(u) /\ <<kind, x>> \notin picks[u] /\ Cardinality(Chosen(u, kind)) < Limit
  /\ Begin(r, [Blank EXCEPT !.op = "pick", !.user = u, !.pick = <<kind, x>>]) /\ Asks
  /\ UNCHANGED <<day, user, tokens, sessions, picks, signIns, shared>>

StorePick(r) ==
  LET u == request[r].user
  IN /\ Doing(r, "pick") /\ user[u] # None /\ request[r].pick \notin picks[u]
     /\ picks' = [picks EXCEPT ![u] = @ \cup {request[r].pick}]
     /\ Ends(r)
     /\ UNCHANGED <<day, user, tokens, sessions, asked, signIns, shared>>

Untrack(u, x) ==
  /\ SignedIn(u) /\ <<"league", x>> \in picks[u] /\ Asks
  /\ picks' = [picks EXCEPT ![u] = @ \ {<<"league", x>>}]
  /\ UNCHANGED <<day, user, tokens, sessions, request, signIns, shared>>

-----------------------------------------------------------------------------
(* retention_sweep: the accounts to purge are read, and deleted at its end   *)
(* with all that hangs on them.  It waits for a row somebody has locked.     *)
StartSweep(r) ==
  LET stale == {u \in Users : Status(u) = "deleted" /\ user[u].deletedOn < day - PurgeAfter}
  IN /\ stale # {}
     /\ Begin(r, [Blank EXCEPT !.op = "sweep", !.stale = stale])
     /\ UNCHANGED <<day, user, tokens, sessions, picks, asked, signIns, shared>>

Gone(rows) == [i \in DOMAIN rows |-> [rows[i] EXCEPT !.state = "gone"]]

FinishSweep_KeepsChoices(r) ==
  LET stale == request[r].stale
  IN /\ Doing(r, "sweep")
     /\ \A q \in Requests : Doing(q, "signin") \/ Doing(q, "delete") => request[q].user \notin stale
     /\ user' = [u \in Users |-> IF u \in stale THEN None ELSE user[u]]
     /\ tokens' = [u \in Users |-> IF u \in stale THEN Gone(tokens[u]) ELSE tokens[u]]
     /\ sessions' = [u \in Users |-> IF u \in stale THEN Gone(sessions[u]) ELSE sessions[u]]
     /\ Ends(r)
     /\ UNCHANGED <<day, picks, asked, signIns, shared>>

FinishSweep(r) ==
  LET stale == request[r].stale
  IN /\ Doing(r, "sweep")
     /\ \A q \in Requests : Doing(q, "signin") \/ Doing(q, "delete") => request[q].user \notin stale
     /\ user' = [u \in Users |-> IF u \in stale THEN None ELSE user[u]]
     /\ tokens' = [u \in Users |-> IF u \in stale THEN Gone(tokens[u]) ELSE tokens[u]]
     /\ sessions' = [u \in Users |-> IF u \in stale THEN Gone(sessions[u]) ELSE sessions[u]]
     /\ picks' = [u \in Users |-> IF u \in stale THEN {} ELSE picks[u]]
     /\ Ends(r)
     /\ UNCHANGED <<day, asked, signIns, shared>>

(* A request that dies, or whose row is gone or already there.               *)
RequestFails(r) ==
  /\ request[r] # Idle
  /\ Ends(r)
  /\ UNCHANGED <<day, user, tokens, sessions, picks, asked, signIns, shared>>

(* No request takes a day.                                                   *)
NextDay ==
  /\ day < MaxDay /\ \A r \in Requests : request[r] = Idle
  /\ day' = day + 1
  /\ UNCHANGED <<user, tokens, sessions, picks, request, asked, signIns, shared>>

Next ==
  \/ \E r \in Requests :
       \/ \E u \in Users : \/ RequestLink(r, u) \/ TypeCode(r, u) \/ DeleteAccount(r, u)
                           \/ \E t \in DOMAIN tokens[u] : OpenLink(r, u, t)
                           \/ \E e \in Entries : ClaimEntry(r, u, e)
                           \/ \E kind \in Kinds, x \in Picks : Choose(r, u, kind, x)
       \/ IssueLink(r) \/ LinkConflicts(r)
       \/ CodeRefused(r) \/ CodeRight(r) \/ CodeLate(r) \/ SignIn(r) \/ CloseAccount(r)
       \/ StoreEntry(r) \/ StorePick(r)
       \/ StartSweep(r) \/ FinishSweep(r) \/ RequestFails(r)
  \/ \E u \in Users :
       \/ \E t \in DOMAIN tokens[u] : TokenExpires(u, t) \/ OpenDeadLink(u, t)
       \/ \E s \in DOMAIN sessions[u] : UseSession(u, s) \/ Logout(u, s)
       \/ LogoutEverywhere(u)
       \/ \E x \in Picks : Untrack(u, x)
  \/ NextDay

Spec == Init /\ [][Next]_vars

-----------------------------------------------------------------------------
(* A token is good for one sign-in, by its link or by its code, however many *)
(* requests bring them at once ("rather than both succeeding",               *)
(* consume_sign_in_code).                                                    *)
TokenUsedOnce == \A u \in Users : \A t \in DOMAIN tokens[u] : signIns[u][t] <= 1

(* Two accounts have one FPL entry only if they claimed it at once, or one   *)
(* of them was deleted when the other claimed it, and came back: nothing in  *)
(* the schema forbids it, and update_me looks before it writes.              *)
EntryHasOneOwner ==
  \A u, v \in Users : u # v /\ Live(u) /\ Live(v) /\ user[u].entry # None /\ user[u].entry = user[v].entry =>
    user[u].entry \in shared

(* A deletion ends the sessions of its account for good ("Access ends now",  *)
(* delete_me), the account's return included, except those whose sign-in it  *)
(* overlapped: only a session whose sign-in had read of the last deletion,   *)
(* or was under way during it, is valid.                                     *)
DeletionEndsSessions ==
  \A u \in Users : \A s \in DOMAIN sessions[u] : Valid(u, s) =>
    user[u].deletion \in {sessions[u][s].after} \cup sessions[u][s].beside

(* A free account exceeds its allowance only as far as its requests overlap. *)
ChoicesBounded ==
  \A u \in Users, kind \in Kinds :
    Cardinality(Chosen(u, kind)) <= Limit + Cardinality(Requests) - 1
=============================================================================
