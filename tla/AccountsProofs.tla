---------------------------- MODULE AccountsProofs ----------------------------
(***************************************************************************)
(* Proofs about Accounts for any addresses, entries, leagues, rivals,      *)
(* requests at the same time, limits and days.                             *)
(***************************************************************************)
EXTENDS Accounts, FiniteSetTheorems, SequenceTheorems, TLAPS

(* What a request knows of the account it is about: whose it is, which of   *)
(* its tokens it brings, that a sign-in under way holds a token that is not *)
(* used up, of an account that is there, and that a deletion has one too.   *)
RequestKnows ==
  \A r \in Requests :
    /\ request[r] # Idle /\ request[r].op # "sweep" => request[r].user \in Users
    /\ Doing(r, "code") \/ Doing(r, "signin") => request[r].token \in DOMAIN tokens[request[r].user]
    /\ Doing(r, "signin") => /\ user[request[r].user] # None
                             /\ Unused(request[r].user, request[r].token)
    /\ Doing(r, "delete") => user[request[r].user] # None
    /\ Doing(r, "entry") => request[r].entry \in Entries /\ request[r].sees = "none"
    /\ Doing(r, "pick") => request[r].pick \in Kinds \X Picks

(* The conditional update lets one request at a time hold a token.          *)
OneHolder ==
  \A q, r \in Requests :
    /\ Doing(q, "signin") /\ Doing(r, "signin")
    /\ request[q].user = request[r].user /\ request[q].token = request[r].token
    => q = r

(* Without an account there are no tokens and no sessions.                  *)
NothingWithoutAccount ==
  \A u \in Users : user[u] = None =>
    /\ \A t \in DOMAIN tokens[u] : tokens[u][t].state = "gone"
    /\ \A s \in DOMAIN sessions[u] : sessions[u][s].state = "gone"

(* A token that is not used up has given no sign-in.                        *)
UnusedIsNew == \A u \in Users : \A t \in DOMAIN tokens[u] : Unused(u, t) => signIns[u][t] = 0

(* A live session has the last deletion of its account behind it: its       *)
(* sign-in had read of it, or overlapped it.                                *)
SessionsOutlive ==
  \A u \in Users : \A s \in DOMAIN sessions[u] : sessions[u][s].state = "live" =>
    /\ user[u] # None
    /\ user[u].deletion \in {sessions[u][s].after} \cup sessions[u][s].beside

(* A deletion under way has seen every session that is live, but for those  *)
(* whose sign-in it overlapped.                                             *)
DeletionsSee ==
  \A r \in Requests : Doing(r, "delete") =>
    \A s \in DOMAIN sessions[request[r].user] : sessions[request[r].user][s].state = "live" =>
      s \in request[r].seen \/ request[r].deletion \in sessions[request[r].user][s].beside

(* A choice that is not yet stored was counted when the account still had   *)
(* one left: stored and pending choices are bounded together.               *)
Pending(u, kind) ==
  {r \in Requests : Doing(r, "pick") /\ request[r].user = u /\ request[r].pick[1] = kind}
ChoicesCounted ==
  \A u \in Users, kind \in Kinds :
    /\ IsFiniteSet(Chosen(u, kind))
    /\ Cardinality(Chosen(u, kind)) + Cardinality(Pending(u, kind)) <= Limit + Cardinality(Requests) - 1

IInv == /\ TypeOK /\ RequestKnows /\ OneHolder /\ NothingWithoutAccount
        /\ TokenUsedOnce /\ UnusedIsNew /\ SessionsOutlive /\ DeletionsSee
        /\ EntryHasOneOwner /\ ChoicesCounted
-----------------------------------------------------------------------------
(* A bounded set of naturals that is not empty has a greatest element, its  *)
(* Max (the newest of a user's live tokens): of the distances to the bound  *)
(* there is a least one. *)
LEMMA MaxOfNaturals ==
  ASSUME NEW S, S \subseteq Nat, S # {}, NEW n \in Nat, \A y \in S : y <= n
  PROVE  Max(S) \in S /\ \A y \in S : Max(S) >= y
<1> DEFINE R == {ss \in Nat \X Nat : ss[1] < ss[2]}
           T == {n - y : y \in S}
<1>1. IsWellFoundedOn(R, Nat)
  BY NatLessThanWellFounded, Zenon DEF OpToRel
<1>2. ASSUME NEW x \in Nat, NEW y \in Nat, y < x
      PROVE  <<y, x>> \in R
  BY <1>2
<1>3. T \subseteq Nat /\ T # {}
  <2>1. \A y \in S : n - y \in Nat
    OBVIOUS
  <2>2. PICK y \in S : TRUE
    OBVIOUS
  <2>3. n - y \in T
    OBVIOUS
  <2> QED
    BY <2>1, <2>3
<1>4. PICK t \in T : \A z \in T : ~(<<z, t>> \in R)
  <2> HIDE DEF R, T
  <2> QED
    BY <1>1, <1>3, WFMin, Zenon
<1>5. PICK x \in S : t = n - x
  OBVIOUS
<1>6. \A y \in S : x >= y
  <2> SUFFICES ASSUME NEW y \in S PROVE x >= y
    OBVIOUS
  <2>1. n - y \in T /\ n - y \in Nat /\ t \in Nat
    BY <1>3
  <2> HIDE DEF R, T
  <2>2. ~(n - y < t)
    BY <1>2, <1>4, <2>1
  <2> QED
    BY <1>5, <2>1, <2>2
<1> QED
  BY <1>6 DEF Max

(* A row of a table replaced by another, as an UPDATE by key does. *)
LEMMA RowReplaced ==
  ASSUME NEW S, NEW rows \in Seq(S), NEW i \in DOMAIN rows, NEW x \in S
  PROVE  /\ [rows EXCEPT ![i] = x] \in Seq(S)
         /\ Len([rows EXCEPT ![i] = x]) = Len(rows)
         /\ DOMAIN [rows EXCEPT ![i] = x] = DOMAIN rows
  BY ExceptSeq, LenProperties

(* Every row of a table rewritten, as an UPDATE of many does. *)
LEMMA RowsRewritten ==
  ASSUME NEW S, NEW rows \in Seq(S), NEW f \in [DOMAIN rows -> S]
  PROVE  f \in Seq(S) /\ Len(f) = Len(rows) /\ DOMAIN f = DOMAIN rows
<1>1. DOMAIN rows = 1..Len(rows) /\ Len(rows) \in Nat
  BY LenProperties
<1>2. f \in Seq(S)
  BY <1>1
<1> QED
  BY <1>1, <1>2, LenProperties

(* A row added at the end of a table, as an INSERT does. *)
LEMMA RowAdded ==
  ASSUME NEW S, NEW rows \in Seq(S), NEW x \in S
  PROVE  /\ Append(rows, x) \in Seq(S) /\ Len(Append(rows, x)) = Len(rows) + 1
         /\ DOMAIN Append(rows, x) = DOMAIN rows \cup {Len(rows) + 1}
         /\ \A j \in DOMAIN rows : Append(rows, x)[j] = rows[j]
         /\ Append(rows, x)[Len(rows) + 1] = x
         /\ Len(rows) + 1 \notin DOMAIN rows
<1>1. DOMAIN rows = 1..Len(rows) /\ Len(rows) \in Nat
  BY LenProperties
<1>2. /\ Append(rows, x) \in Seq(S) /\ Len(Append(rows, x)) = Len(rows) + 1
      /\ \A j \in 1..Len(rows) : Append(rows, x)[j] = rows[j]
      /\ Append(rows, x)[Len(rows) + 1] = x
  BY AppendProperties
<1>3. DOMAIN Append(rows, x) = 1..(Len(rows) + 1)
  BY <1>2, LenProperties
<1> QED
  BY <1>1, <1>2, <1>3

(* One token of one address changes, and nothing else of the table. *)
LEMMA TokenReplaced ==
  ASSUME TypeOK, NEW u \in Users, NEW t \in DOMAIN tokens[u], NEW x \in Token,
         tokens' = [tokens EXCEPT ![u] = [tokens[u] EXCEPT ![t] = x]]
  PROVE  /\ tokens' \in [Users -> Seq(Token)]
         /\ \A v \in Users : Len(tokens'[v]) = Len(tokens[v]) /\ DOMAIN tokens'[v] = DOMAIN tokens[v]
         /\ \A v \in Users : \A i \in DOMAIN tokens[v] :
              tokens'[v][i] = IF v = u /\ i = t THEN x ELSE tokens[v][i]
<1>1. tokens \in [Users -> Seq(Token)]
  BY DEF TypeOK
<1> DEFINE f == [tokens[u] EXCEPT ![t] = x]
<1>2. f \in Seq(Token) /\ Len(f) = Len(tokens[u]) /\ DOMAIN f = DOMAIN tokens[u]
  BY <1>1, RowReplaced
<1>3. \A i \in DOMAIN tokens[u] : f[i] = IF i = t THEN x ELSE tokens[u][i]
  OBVIOUS
<1>4. tokens' = [tokens EXCEPT ![u] = f]
  OBVIOUS
<1> HIDE DEF f
<1> QED
  BY <1>1, <1>2, <1>3, <1>4

(* What every step that uses up, burns, expires or miscounts a token does   *)
(* to the table of tokens. *)
LEMMA TokenIs ==
  ASSUME TypeOK, NEW u \in Users, NEW t \in DOMAIN tokens[u]
  PROVE  /\ tokens[u][t] \in Token
         /\ \A z \in {"live", "expired", "consumed", "gone"} :
              /\ [tokens[u][t] EXCEPT !.state = z] \in Token
              /\ [tokens[u][t] EXCEPT !.state = z].state = z
         /\ \A n \in Nat :
              /\ [tokens[u][t] EXCEPT !.attempts = n] \in Token
              /\ [tokens[u][t] EXCEPT !.attempts = n].state = tokens[u][t].state
<1>1. tokens[u] \in Seq(Token)
  BY DEF TypeOK
<1>2. tokens[u][t] \in Token
  BY <1>1, LenProperties, ElementOfSeq
<1> QED
  BY <1>2 DEF Token

(* Sessions of one address that are revoked keep everything else. *)
LEMMA RevokedIs ==
  ASSUME TypeOK, NEW u \in Users, NEW ss
  PROVE  /\ Revoked(u, ss) \in Seq(Session)
         /\ Len(Revoked(u, ss)) = Len(sessions[u]) /\ DOMAIN Revoked(u, ss) = DOMAIN sessions[u]
         /\ \A s \in DOMAIN sessions[u] :
              /\ Revoked(u, ss)[s].after = sessions[u][s].after
              /\ Revoked(u, ss)[s].beside = sessions[u][s].beside
              /\ Revoked(u, ss)[s].state = IF s \in ss THEN "revoked" ELSE sessions[u][s].state
<1>1. sessions[u] \in Seq(Session)
  BY DEF TypeOK
<1>2. \A s \in DOMAIN sessions[u] : sessions[u][s] \in Session
  BY <1>1, LenProperties, ElementOfSeq
<1>3. \A s \in DOMAIN sessions[u] :
        /\ [sessions[u][s] EXCEPT !.state = "revoked"] \in Session
        /\ [sessions[u][s] EXCEPT !.state = "revoked"].after = sessions[u][s].after
        /\ [sessions[u][s] EXCEPT !.state = "revoked"].beside = sessions[u][s].beside
        /\ [sessions[u][s] EXCEPT !.state = "revoked"].state = "revoked"
  BY <1>2 DEF Session
<1>4. Revoked(u, ss) \in [DOMAIN sessions[u] -> Session]
  BY <1>2, <1>3 DEF Revoked
<1>5. \A s \in DOMAIN sessions[u] :
        Revoked(u, ss)[s] = IF s \in ss THEN [sessions[u][s] EXCEPT !.state = "revoked"] ELSE sessions[u][s]
  BY DEF Revoked
<1>6. /\ Revoked(u, ss) \in Seq(Session)
      /\ Len(Revoked(u, ss)) = Len(sessions[u]) /\ DOMAIN Revoked(u, ss) = DOMAIN sessions[u]
  BY <1>1, <1>4, RowsRewritten
<1> QED
  BY <1>3, <1>5, <1>6

(* The rows of a purged account are gone, all of them. *)
LEMMA GoneIs ==
  ASSUME TypeOK, NEW u \in Users
  PROVE  /\ Gone(tokens[u]) \in Seq(Token) /\ Gone(sessions[u]) \in Seq(Session)
         /\ Len(Gone(tokens[u])) = Len(tokens[u])
         /\ DOMAIN Gone(tokens[u]) = DOMAIN tokens[u] /\ DOMAIN Gone(sessions[u]) = DOMAIN sessions[u]
         /\ \A t \in DOMAIN tokens[u] : Gone(tokens[u])[t].state = "gone"
         /\ \A s \in DOMAIN sessions[u] : Gone(sessions[u])[s].state = "gone"
<1>1. tokens[u] \in Seq(Token) /\ sessions[u] \in Seq(Session)
  BY DEF TypeOK
<1>2. \A t \in DOMAIN tokens[u] : tokens[u][t] \in Token
  BY <1>1, LenProperties, ElementOfSeq
<1>3. \A s \in DOMAIN sessions[u] : sessions[u][s] \in Session
  BY <1>1, LenProperties, ElementOfSeq
<1>4. /\ Gone(tokens[u]) \in [DOMAIN tokens[u] -> Token]
      /\ \A t \in DOMAIN tokens[u] : Gone(tokens[u])[t].state = "gone"
  BY <1>2 DEF Gone, Token
<1>5. /\ Gone(sessions[u]) \in [DOMAIN sessions[u] -> Session]
      /\ \A s \in DOMAIN sessions[u] : Gone(sessions[u])[s].state = "gone"
  BY <1>3 DEF Gone, Session
<1> QED
  BY <1>1, <1>4, <1>5, RowsRewritten

(* A request that begins, with the fields its route fills in. *)
LEMMA BeginsTyped ==
  ASSUME TypeOK, NEW r \in Requests, NEW what \in Request, Begin(r, what)
  PROVE  request' \in [Requests -> Request \cup {Idle}] /\ request'[r] = what
  BY DEF TypeOK, Begin

(* A request that ends leaves no trace of itself. *)
LEMMA EndsTyped ==
  ASSUME TypeOK, NEW r \in Requests, Ends(r)
  PROVE  /\ request' \in [Requests -> Request \cup {Idle}] /\ request'[r] = Idle
         /\ \A q \in Requests : q # r => request'[q] = request[q]
  BY DEF TypeOK, Ends

(* What a request is while it does something. *)
LEMMA DoingIs ==
  ASSUME TypeOK, NEW r \in Requests, NEW op, Doing(r, op)
  PROVE  request[r] \in Request /\ request[r].op = op
  BY DEF TypeOK, Doing

(* The deletions a sign-in may have crossed: all that are under way, and the *)
(* last one, unless the sign-in had read of it. *)
LEMMA BesideIs ==
  ASSUME TypeOK, NEW u \in Users, user[u] \in Account, NEW d
  PROVE  /\ Beside(u, d) \subseteq Nat
         /\ user[u].deletion \in {d} \cup Beside(u, d)
         /\ \A q \in Requests : Doing(q, "delete") /\ request[q].user = u => request[q].deletion \in Beside(u, d)
<1>1. \A q \in Requests : Doing(q, "delete") => request[q].deletion \in Nat
  BY AccountsAssumption, DoingIs DEF Doing, Request
<1>2. user[u].deletion \in Nat
  BY DEF Account
<1> QED
  BY <1>1, <1>2 DEF Beside

(* A session as a sign-in stores it. *)
LEMMA StoredIs ==
  ASSUME NEW until \in Nat, NEW after \in Nat, NEW beside \in SUBSET Nat
  PROVE  [state |-> "live", until |-> until, after |-> after, beside |-> beside] \in Session
  BY DEF Session
-----------------------------------------------------------------------------
(* Initially nobody has asked for anything. *)
LEMMA InitIInv == Init => IInv
<1> SUFFICES ASSUME Init PROVE IInv
  OBVIOUS
<1>1. TypeOK
  <2>1. NewAccount(TRUE) \in Account
    BY AccountsAssumption DEF NewAccount, Account, Days
  <2>2. user \in [Users -> Account \cup {None}]
    BY <2>1 DEF Init
  <2>3. FirstSession \in Session
    BY AccountsAssumption DEF FirstSession, Session
  <2>4. sessions \in [Users -> Seq(Session)]
    BY <2>3 DEF Init
  <2>5. tokens \in [Users -> Seq(Token)] /\ signIns \in [Users -> Seq(Nat)]
    BY DEF Init
  <2>6. /\ day \in Days /\ asked \in 0..MaxRequests /\ shared \subseteq Entries
        /\ picks \in [Users -> SUBSET (Kinds \X Picks)]
        /\ request \in [Requests -> Request \cup {Idle}]
        /\ \A u \in Users : picks[u] = {} /\ Len(signIns[u]) = Len(tokens[u])
    BY AccountsAssumption DEF Init, Days
  <2> QED
    BY <2>2, <2>4, <2>5, <2>6 DEF TypeOK
<1>2. \A r \in Requests : request[r] = Idle
  BY DEF Init
<1>3. RequestKnows /\ OneHolder /\ DeletionsSee
  BY <1>2 DEF RequestKnows, OneHolder, DeletionsSee, Doing
<1>4. /\ NothingWithoutAccount /\ SessionsOutlive
  <2>1. \A u \in Users : u \in Members => user[u] # None /\ user[u].deletion = 0
    <3>1. NewAccount(TRUE) \in Account /\ NewAccount(TRUE).deletion = 0
      BY AccountsAssumption DEF NewAccount, Account, Days
    <3>2. \A u \in Users : u \in Members => user[u] = NewAccount(TRUE)
      BY DEF Init
    <3> QED
      BY <3>1, <3>2, NoAccountAssumption
  <2>2. \A u \in Users : u \notin Members => sessions[u] = << >>
    BY DEF Init
  <2>3. \A u \in Users : u \in Members => sessions[u] = <<FirstSession>>
    BY DEF Init
  <2>4. \A u \in Users : tokens[u] = << >>
    BY DEF Init
  <2> QED
    BY <2>1, <2>2, <2>3, <2>4 DEF NothingWithoutAccount, SessionsOutlive, FirstSession
<1>5. TokenUsedOnce /\ UnusedIsNew
  BY DEF Init, TokenUsedOnce, UnusedIsNew
<1>6. EntryHasOneOwner
  <2>1. \A u \in Users : user[u] # None => user[u].entry = None
    BY AccountsAssumption DEF Init, NewAccount
  <2> QED
    BY <2>1 DEF EntryHasOneOwner, Live, Status
<1>7. ChoicesCounted
  <2>1. \A u \in Users, kind \in Kinds : Chosen(u, kind) = {} /\ Pending(u, kind) = {}
    BY <1>2 DEF Init, Chosen, Pending, Doing
  <2>2. Cardinality(Requests) \in Nat
    BY AccountsAssumption, FS_CardinalityType
  <2> QED
    BY <2>1, <2>2, AccountsAssumption, FS_EmptySet DEF ChoicesCounted
<1> QED
  BY <1>1, <1>3, <1>4, <1>5, <1>6, <1>7 DEF IInv

(* Every action leaves every variable in its type; what it reads of a       *)
(* request has to be known for this (a code's token is one of the account). *)
LEMMA NextType ==
  ASSUME TypeOK, RequestKnows, [Next]_vars
  PROVE  TypeOK'
<1> USE DEF TypeOK
<1> DEFINE Kept == UNCHANGED <<day, user, tokens, sessions, picks, signIns, shared>>
<1>1. ASSUME Asks PROVE asked' \in 0..MaxRequests
  BY <1>1, AccountsAssumption DEF Asks
<1>2. ASSUME UNCHANGED vars PROVE TypeOK'
  BY <1>2 DEF vars
<1>3. Blank.user = None /\ \A u \in Users : Status(u) \in {"none", "live", "deleted"}
  BY DEF Blank, Status
<1>4. ASSUME NEW r \in Requests, NEW u \in Users, RequestLink(r, u) PROVE TypeOK'
  <2>1. [Blank EXCEPT !.op = "link", !.user = u, !.sees = Status(u)] \in Request
    BY <1>3 DEF Blank, Request
  <2> QED
    BY <1>1, <1>4, <2>1, BeginsTyped DEF RequestLink
<1>5. ASSUME NEW r \in Requests, NEW u \in Users, TypeCode(r, u) PROVE TypeOK'
  <2> DEFINE t == Max(LiveTokens(u))
  <2>1. t \in DOMAIN tokens[u]
    <3>1. DOMAIN tokens[u] = 1..Len(tokens[u]) /\ Len(tokens[u]) \in Nat
      BY LenProperties
    <3>2. LiveTokens(u) \subseteq Nat /\ LiveTokens(u) # {} /\ \A y \in LiveTokens(u) : y <= Len(tokens[u])
      BY <1>5, <3>1 DEF TypeCode, LiveTokens
    <3>3. t \in LiveTokens(u)
      BY <3>1, <3>2, MaxOfNaturals
    <3> QED
      BY <3>3 DEF LiveTokens
  <2>2. t \in Nat /\ tokens[u][t].attempts \in Nat
    <3>1. DOMAIN tokens[u] = 1..Len(tokens[u])
      BY LenProperties
    <3>2. \A i \in DOMAIN tokens[u] : tokens[u][i] \in Token
      BY TokenIs
    <3> HIDE DEF t, TypeOK
    <3>3. \A i \in DOMAIN tokens[u] : i \in Nat
      BY <3>1
    <3> QED
      BY <2>1, <3>2, <3>3 DEF Token
  <2> DEFINE what == [Blank EXCEPT !.op = "code", !.user = u, !.token = t,
                                    !.attempts = tokens[u][t].attempts, !.deletion = user[u].deletion]
  <2>3. Begin(r, what) /\ user[u] \in Account
    BY <1>5 DEF TypeCode, Live, Status
  <2> HIDE DEF t
  <2>4. what \in Request
    <3>1. user[u].deletion \in Nat
      BY <2>3 DEF Account
    <3> QED
      BY <2>2, <3>1 DEF Blank, Request
  <2> HIDE DEF what
  <2> QED
    BY <1>1, <1>5, <2>3, <2>4, BeginsTyped DEF TypeCode
<1>6. ASSUME NEW u \in Users, NEW t \in DOMAIN tokens[u], NEW d \in Nat PROVE SigningIn(u, t, d) \in Request
  <2>1. DOMAIN tokens[u] = 1..Len(tokens[u]) /\ DOMAIN sessions[u] = 1..Len(sessions[u])
    BY LenProperties
  <2>2. t \in Nat /\ OpenSessions(u) \subseteq Nat
    BY <2>1 DEF OpenSessions
  <2> QED
    BY <2>2 DEF SigningIn, Blank, Request
<1>7. ASSUME NEW r \in Requests, NEW u \in Users, NEW t \in DOMAIN tokens[u], OpenLink(r, u, t) PROVE TypeOK'
  <2>1. user[u] \in Account
    BY <1>7 DEF OpenLink, Live, Status
  <2>2. user[u].deletion \in Nat
    BY <2>1 DEF Account
  <2>3. SigningIn(u, t, user[u].deletion) \in Request
    BY <1>6, <2>2
  <2> QED
    BY <1>1, <1>7, <2>3, BeginsTyped DEF OpenLink
<1>8. ASSUME NEW r \in Requests, NEW u \in Users, NEW e \in Entries, ClaimEntry(r, u, e) PROVE TypeOK'
  <2>1. [Blank EXCEPT !.op = "entry", !.user = u, !.entry = e, !.sees = "none"] \in Request
    BY DEF Blank, Request
  <2> QED
    BY <1>1, <1>8, <2>1, BeginsTyped DEF ClaimEntry
<1>9. ASSUME NEW r \in Requests, NEW u \in Users, NEW kind \in Kinds, NEW x \in Picks, Choose(r, u, kind, x)
      PROVE  TypeOK'
  <2>1. [Blank EXCEPT !.op = "pick", !.user = u, !.pick = <<kind, x>>] \in Request
    BY DEF Blank, Request
  <2> QED
    BY <1>1, <1>9, <2>1, BeginsTyped DEF Choose
<1>10. ASSUME NEW r \in Requests, IssueLink(r) PROVE TypeOK'
  <2> DEFINE u == request[r].user
             row == [state |-> "live", attempts |-> 0]
             back == CASE request[r].sees = "none"    -> NewAccount(FALSE)
                       [] request[r].sees = "deleted" -> [user[u] EXCEPT !.deletedOn = None]
                       [] OTHER                       -> user[u]
  <2>1. u \in Users /\ request[r] \in Request
    BY <1>10, DoingIs, AccountsAssumption DEF IssueLink, RequestKnows, Doing
  <2>2. row \in Token
    BY DEF Token
  <2>3. Append(tokens[u], row) \in Seq(Token) /\ Len(Append(tokens[u], row)) = Len(tokens[u]) + 1
    BY <2>1, <2>2, RowAdded
  <2>4. Append(signIns[u], 0) \in Seq(Nat) /\ Len(Append(signIns[u], 0)) = Len(signIns[u]) + 1
    BY <2>1, RowAdded
  <2>5. back \in Account \cup {None} /\ (back = None => user[u] = None)
    <3>1. NewAccount(FALSE) \in Account
      BY DEF NewAccount, Account
    <3>2. CASE request[r].sees = "none"
      BY <3>1, <3>2, NoAccountAssumption
    <3>3. CASE request[r].sees = "deleted"
      <4>1. user[u] \in Account
        BY <1>10, <2>1, <3>3 DEF IssueLink
      <4>2. [user[u] EXCEPT !.deletedOn = None] \in Account
        BY <4>1 DEF Account
      <4> QED
        BY <3>3, <4>2, NoAccountAssumption
    <3>4. CASE request[r].sees \notin {"none", "deleted"}
      BY <2>1, <3>4
    <3> QED
      BY <3>2, <3>3, <3>4
  <2>6. /\ tokens' = [tokens EXCEPT ![u] = Append(tokens[u], row)]
        /\ signIns' = [signIns EXCEPT ![u] = Append(signIns[u], 0)]
        /\ user' = [user EXCEPT ![u] = back]
        /\ shared' \subseteq Entries
        /\ UNCHANGED <<day, sessions, picks, asked>>
        /\ Ends(r)
    BY <1>10 DEF IssueLink
  <2> HIDE DEF row, back, u
  <2>7. tokens' \in [Users -> Seq(Token)] /\ signIns' \in [Users -> Seq(Nat)]
        /\ \A v \in Users : Len(signIns'[v]) = Len(tokens'[v])
    BY <2>1, <2>3, <2>4, <2>6
  <2>8. user' \in [Users -> Account \cup {None}] /\ \A v \in Users : user'[v] = None => picks'[v] = {}
    BY <2>1, <2>5, <2>6
  <2> QED
    BY <2>6, <2>7, <2>8, EndsTyped
<1>11. ASSUME NEW r \in Requests, LinkConflicts(r) \/ CodeLate(r) \/ RequestFails(r) PROVE TypeOK'
  BY <1>11, EndsTyped DEF LinkConflicts, CodeLate, RequestFails
<1>12. ASSUME NEW u \in Users, NEW t \in DOMAIN tokens[u], TokenExpires(u, t) \/ OpenDeadLink(u, t) PROVE TypeOK'
  <2>1. PICK z \in {"expired", "consumed"} :
          tokens' = [tokens EXCEPT ![u] = [tokens[u] EXCEPT ![t] = [tokens[u][t] EXCEPT !.state = z]]]
    BY <1>12 DEF TokenExpires, OpenDeadLink
  <2>2. /\ tokens' \in [Users -> Seq(Token)]
        /\ \A v \in Users : Len(tokens'[v]) = Len(tokens[v])
    BY <2>1, TokenIs, TokenReplaced
  <2> QED
    BY <1>1, <1>12, <2>2 DEF TokenExpires, OpenDeadLink
<1>13. ASSUME NEW r \in Requests, CodeRefused(r) PROVE TypeOK'
  <2> DEFINE u == request[r].user
             t == request[r].token
  <2>1. u \in Users /\ t \in DOMAIN tokens[u] /\ request[r] \in Request
    BY <1>13, DoingIs DEF CodeRefused, RequestKnows, Doing
  <2>2. PICK x \in Token : tokens' = [tokens EXCEPT ![u] = [tokens[u] EXCEPT ![t] = x]]
    <3>1. CASE request[r].attempts >= MaxAttempts
      BY <1>13, <2>1, <3>1, TokenIs DEF CodeRefused
    <3>2. CASE ~(request[r].attempts >= MaxAttempts)
      <4>1. request[r].attempts + 1 \in Nat
        BY <2>1 DEF Request
      <4> QED
        BY <1>13, <2>1, <3>2, <4>1, TokenIs DEF CodeRefused
    <3> QED
      BY <3>1, <3>2
  <2>3. /\ tokens' \in [Users -> Seq(Token)]
        /\ \A v \in Users : Len(tokens'[v]) = Len(tokens[v])
    BY <2>1, <2>2, TokenReplaced
  <2> QED
    BY <1>13, <2>3, EndsTyped DEF CodeRefused
<1>14. ASSUME NEW r \in Requests, CodeRight(r) PROVE TypeOK'
  <2>1. /\ request[r].user \in Users /\ request[r].token \in DOMAIN tokens[request[r].user]
        /\ request[r] \in Request
    BY <1>14, DoingIs DEF CodeRight, RequestKnows, Doing
  <2>2. SigningIn(request[r].user, request[r].token, request[r].deletion) \in Request
    <3>1. request[r].deletion \in Nat
      BY <2>1 DEF Request
    <3> QED
      BY <1>6, <2>1, <3>1
  <2> QED
    BY <1>14, <2>2 DEF CodeRight
<1>15. ASSUME NEW r \in Requests, SignIn(r) PROVE TypeOK'
  <2> DEFINE u == request[r].user
             t == request[r].token
             n == [state |-> "live", until |-> day + SessionTtl,
                   after |-> request[r].deletion, beside |-> Beside(u, request[r].deletion)]
             ss == Append(Revoked(u, Pruned(request[r].seen)), n)
  <2>1. u \in Users /\ t \in DOMAIN tokens[u] /\ user[u] \in Account /\ request[r] \in Request
    BY <1>15, DoingIs DEF SignIn, RequestKnows, Doing
  <2>2. tokens' = [tokens EXCEPT ![u] = [tokens[u] EXCEPT ![t] = [tokens[u][t] EXCEPT !.state = "consumed"]]]
    BY <1>15 DEF SignIn
  <2>3. /\ tokens' \in [Users -> Seq(Token)]
        /\ \A v \in Users : Len(tokens'[v]) = Len(tokens[v])
    BY <2>1, <2>2, TokenIs, TokenReplaced
  <2>4. n \in Session
    <3>1. Beside(u, request[r].deletion) \subseteq Nat
      BY <2>1, BesideIs
    <3>2. request[r].deletion \in Nat
      BY <2>1 DEF Request
    <3>3. day + SessionTtl \in Nat
      BY AccountsAssumption DEF Days
    <3> QED
      BY <3>1, <3>2, <3>3, StoredIs
  <2>5. ss \in Seq(Session)
    <3>1. Revoked(u, Pruned(request[r].seen)) \in Seq(Session)
      BY <2>1, RevokedIs
    <3> HIDE DEF n, u
    <3> QED
      BY <2>4, <3>1, RowAdded
  <2>6. [user[u] EXCEPT !.verified = TRUE] \in Account
    BY <2>1 DEF Account
  <2>7. signIns[u] \in Seq(Nat) /\ t \in DOMAIN signIns[u] /\ signIns[u][t] + 1 \in Nat
    <3>1. DOMAIN signIns[u] = 1..Len(signIns[u]) /\ DOMAIN tokens[u] = 1..Len(tokens[u])
      BY <2>1, LenProperties
    <3> QED
      BY <2>1, <3>1, ElementOfSeq
  <2>8. /\ [signIns[u] EXCEPT ![t] = signIns[u][t] + 1] \in Seq(Nat)
        /\ Len([signIns[u] EXCEPT ![t] = signIns[u][t] + 1]) = Len(signIns[u])
    BY <2>7, RowReplaced
  <2>9. /\ sessions' = [sessions EXCEPT ![u] = ss]
        /\ user' = [user EXCEPT ![u] = [user[u] EXCEPT !.verified = TRUE]]
        /\ signIns' = [signIns EXCEPT ![u] = [signIns[u] EXCEPT ![t] = signIns[u][t] + 1]]
        /\ Ends(r) /\ UNCHANGED <<day, picks, asked, shared>>
    BY <1>15 DEF SignIn
  <2> DEFINE acc == [user[u] EXCEPT !.verified = TRUE]
             given == [signIns[u] EXCEPT ![t] = signIns[u][t] + 1]
  <2>10. /\ acc \in Account /\ given \in Seq(Nat) /\ Len(given) = Len(signIns[u])
         /\ user' = [user EXCEPT ![u] = acc] /\ signIns' = [signIns EXCEPT ![u] = given]
    BY <2>6, <2>8, <2>9
  <2> HIDE DEF ss, n, acc, given, u, t
  <2>11. /\ signIns' \in [Users -> Seq(Nat)]
         /\ \A v \in Users : Len(signIns'[v]) = Len(tokens'[v])
    BY <2>1, <2>3, <2>10
  <2>12. user' \in [Users -> Account \cup {None}] /\ \A v \in Users : user'[v] = None => user[v] = None
    BY <2>1, <2>10, NoAccountAssumption
  <2>13. sessions' \in [Users -> Seq(Session)]
    BY <2>1, <2>5, <2>9
  <2> QED
    BY <2>3, <2>9, <2>11, <2>12, <2>13, EndsTyped
<1>16. ASSUME NEW r \in Requests, StoreEntry(r) PROVE TypeOK'
  <2> DEFINE u == request[r].user
             e == request[r].entry
  <2>1. u \in Users /\ e \in Entries /\ user[u] \in Account
    BY <1>16, DoingIs DEF StoreEntry, RequestKnows, Doing
  <2>2. [user[u] EXCEPT !.entry = e] \in Account
    BY <2>1 DEF Account
  <2>3. user' = [user EXCEPT ![u] = [user[u] EXCEPT !.entry = e]] /\ shared' \subseteq Entries
    BY <1>16, <2>1 DEF StoreEntry
  <2>4. user' \in [Users -> Account \cup {None}] /\ \A v \in Users : user'[v] = None => user[v] = None
    BY <2>1, <2>2, <2>3, NoAccountAssumption
  <2> QED
    BY <1>16, <2>3, <2>4, EndsTyped DEF StoreEntry
<1>17. ASSUME NEW r \in Requests, StorePick(r) PROVE TypeOK'
  <2>1. request[r].user \in Users /\ request[r].pick \in Kinds \X Picks /\ user[request[r].user] # None
    BY <1>17, DoingIs DEF StorePick, RequestKnows, Doing
  <2>2. /\ picks' \in [Users -> SUBSET (Kinds \X Picks)]
        /\ \A v \in Users : v # request[r].user => picks'[v] = picks[v]
    BY <1>17, <2>1 DEF StorePick
  <2> QED
    BY <1>17, <2>1, <2>2, EndsTyped DEF StorePick
<1>18. ASSUME NEW r \in Requests, StartSweep(r) PROVE TypeOK'
  <2> DEFINE stale == {u \in Users : Status(u) = "deleted" /\ user[u].deletedOn < day - PurgeAfter}
  <2>1. [Blank EXCEPT !.op = "sweep", !.stale = stale] \in Request
    BY DEF Blank, Request
  <2> QED
    BY <1>18, <2>1, BeginsTyped DEF StartSweep
<1>19. ASSUME NEW r \in Requests, FinishSweep(r) PROVE TypeOK'
  <2>1. \A u \in Users : /\ Gone(tokens[u]) \in Seq(Token) /\ Gone(sessions[u]) \in Seq(Session)
                         /\ Len(Gone(tokens[u])) = Len(tokens[u])
    BY GoneIs
  <2> DEFINE stale == request[r].stale
  <2>2. /\ user' = [u \in Users |-> IF u \in stale THEN None ELSE user[u]]
        /\ tokens' = [u \in Users |-> IF u \in stale THEN Gone(tokens[u]) ELSE tokens[u]]
        /\ sessions' = [u \in Users |-> IF u \in stale THEN Gone(sessions[u]) ELSE sessions[u]]
        /\ picks' = [u \in Users |-> IF u \in stale THEN {} ELSE picks[u]]
        /\ Ends(r) /\ UNCHANGED <<day, asked, signIns, shared>>
    BY <1>19 DEF FinishSweep
  <2> HIDE DEF stale
  <2>3. tokens' \in [Users -> Seq(Token)] /\ \A u \in Users : Len(tokens'[u]) = Len(tokens[u])
    BY <2>1, <2>2
  <2>4. sessions' \in [Users -> Seq(Session)]
    BY <2>1, <2>2
  <2>5. /\ user' \in [Users -> Account \cup {None}] /\ picks' \in [Users -> SUBSET (Kinds \X Picks)]
        /\ \A u \in Users : user'[u] = None => picks'[u] = {}
    BY <2>2
  <2> QED
    BY <2>2, <2>3, <2>4, <2>5, EndsTyped
<1>20. ASSUME NEW u \in Users, NEW s \in DOMAIN sessions[u], UseSession(u, s) PROVE TypeOK'
  <2>1. sessions[u][s] \in Session
    BY LenProperties, ElementOfSeq
  <2>2. [sessions[u][s] EXCEPT !.until = day + SessionTtl] \in Session
    <3>1. day + SessionTtl \in Nat
      BY AccountsAssumption DEF Days
    <3> HIDE DEF TypeOK
    <3> QED
      BY <2>1, <3>1 DEF Session
  <2>3. [sessions[u] EXCEPT ![s] = [sessions[u][s] EXCEPT !.until = day + SessionTtl]] \in Seq(Session)
    BY <2>2, RowReplaced
  <2>4. sessions' = [sessions EXCEPT ![u] = [sessions[u] EXCEPT ![s] = [sessions[u][s] EXCEPT !.until = day + SessionTtl]]]
    BY <1>20 DEF UseSession
  <2>5. sessions' \in [Users -> Seq(Session)]
    BY <2>3, <2>4
  <2> QED
    BY <1>20, <2>5 DEF UseSession
<1>21. ASSUME NEW u \in Users, NEW s \in DOMAIN sessions[u], Logout(u, s) PROVE TypeOK'
  <2>1. Revoked(u, {s}) \in Seq(Session)
    BY RevokedIs
  <2> QED
    BY <1>1, <1>21, <2>1 DEF Logout
<1>22. ASSUME NEW u \in Users, LogoutEverywhere(u) PROVE TypeOK'
  <2>1. Revoked(u, OpenSessions(u)) \in Seq(Session)
    BY RevokedIs
  <2> QED
    BY <1>1, <1>22, <2>1 DEF LogoutEverywhere
<1>23. ASSUME NEW r \in Requests, NEW u \in Users, DeleteAccount(r, u) PROVE TypeOK'
  <2>1. OpenSessions(u) \subseteq Nat /\ asked + 1 \in Nat
    BY LenProperties, AccountsAssumption DEF OpenSessions
  <2>2. [Blank EXCEPT !.op = "delete", !.user = u, !.seen = OpenSessions(u), !.deletion = asked + 1] \in Request
    BY <2>1 DEF Blank, Request
  <2> QED
    BY <1>1, <1>23, <2>2, BeginsTyped DEF DeleteAccount
<1>26. ASSUME NEW r \in Requests, CloseAccount(r) PROVE TypeOK'
  <2> DEFINE u == request[r].user
  <2>1. u \in Users /\ user[u] \in Account /\ request[r] \in Request
    BY <1>26, DoingIs DEF CloseAccount, RequestKnows, Doing
  <2>2. Revoked(u, request[r].seen) \in Seq(Session)
    BY <2>1, RevokedIs
  <2>3. [user[u] EXCEPT !.deletedOn = day, !.deletion = request[r].deletion] \in Account
    <3>1. day \in Days /\ request[r].deletion \in Nat
      BY <2>1 DEF Request
    <3> HIDE DEF TypeOK
    <3> QED
      BY <2>1, <3>1 DEF Account
  <2>4. /\ user' = [user EXCEPT ![u] = [user[u] EXCEPT !.deletedOn = day, !.deletion = request[r].deletion]]
        /\ sessions' = [sessions EXCEPT ![u] = Revoked(u, request[r].seen)]
        /\ Ends(r) /\ UNCHANGED <<day, tokens, picks, asked, signIns, shared>>
    BY <1>26 DEF CloseAccount
  <2> HIDE DEF u
  <2>5. user' \in [Users -> Account \cup {None}] /\ \A v \in Users : user'[v] = None => user[v] = None
    BY <2>1, <2>3, <2>4, NoAccountAssumption
  <2>6. sessions' \in [Users -> Seq(Session)]
    BY <2>2, <2>4
  <2> QED
    BY <2>4, <2>5, <2>6, EndsTyped
<1>24. ASSUME NEW u \in Users, NEW x \in Picks, Untrack(u, x) PROVE TypeOK'
  <2>1. /\ picks' \in [Users -> SUBSET (Kinds \X Picks)]
        /\ \A v \in Users : picks'[v] \subseteq picks[v]
    BY <1>24 DEF Untrack
  <2> QED
    BY <1>1, <1>24, <2>1 DEF Untrack
<1>25. ASSUME NextDay PROVE TypeOK'
  BY <1>25, AccountsAssumption DEF NextDay, Days
<1> QED
  BY <1>2, <1>4, <1>5, <1>7, <1>8, <1>9, <1>10, <1>11, <1>12, <1>13, <1>14, <1>15, <1>16, <1>17,
     <1>18, <1>19, <1>20, <1>21, <1>22, <1>23, <1>24, <1>25, <1>26 DEF Next
-----------------------------------------------------------------------------
(* The life of a token: its row stays where it is, what is used up or gone  *)
(* never comes back, and the step that gives a sign-in uses it up.          *)
Lives(u) ==
  /\ DOMAIN tokens[u] \subseteq DOMAIN tokens'[u]
  /\ \A t \in DOMAIN tokens[u] :
       /\ Unused(u, t)' => Unused(u, t)
       /\ tokens[u][t].state = "gone" => tokens'[u][t].state = "gone"
       /\ \/ signIns'[u][t] = signIns[u][t]
          \/ signIns'[u][t] = signIns[u][t] + 1 /\ Unused(u, t) /\ ~Unused(u, t)'
  /\ \A t \in DOMAIN tokens'[u] \ DOMAIN tokens[u] : signIns'[u][t] = 0 /\ user'[u] # None

(* Every step lets every token live so. *)
LEMMA TokenLife ==
  ASSUME TypeOK, RequestKnows, [Next]_vars
  PROVE  \A u \in Users : Lives(u)
<1>1. ASSUME UNCHANGED <<tokens, signIns>> PROVE \A u \in Users : Lives(u)
  BY <1>1 DEF Lives, Unused
<1>2. ASSUME NEW u \in Users, NEW t \in DOMAIN tokens[u], NEW x \in Token, UNCHANGED signIns,
             tokens' = [tokens EXCEPT ![u] = [tokens[u] EXCEPT ![t] = x]],
             tokens[u][t].state # "gone", x.state = tokens[u][t].state \/ Unused(u, t)
                                          \/ x.state = "consumed"
      PROVE  \A v \in Users : Lives(v)
  <2>1. /\ \A v \in Users : DOMAIN tokens'[v] = DOMAIN tokens[v]
        /\ \A v \in Users : \A i \in DOMAIN tokens[v] :
             tokens'[v][i] = IF v = u /\ i = t THEN x ELSE tokens[v][i]
    BY <1>2, TokenReplaced
  <2> QED
    BY <1>2, <2>1 DEF Lives, Unused
<1>3. ASSUME NEW r \in Requests, IssueLink(r) PROVE \A v \in Users : Lives(v)
  <2> DEFINE row == [state |-> "live", attempts |-> 0]
  <2>0. PICK u \in Users : u = request[r].user
    BY <1>3, AccountsAssumption, DoingIs DEF IssueLink, RequestKnows, Doing
  <2>1. u \in Users /\ tokens[u] \in Seq(Token) /\ signIns[u] \in Seq(Nat) /\ row \in Token
    BY DEF TypeOK, Token
  <2>2. /\ tokens' = [tokens EXCEPT ![u] = Append(tokens[u], row)]
        /\ signIns' = [signIns EXCEPT ![u] = Append(signIns[u], 0)]
        /\ Len(signIns[u]) = Len(tokens[u])
    BY <1>3, <2>0, <2>1 DEF IssueLink, TypeOK
  <2>3. user'[u] # None
    <3>1. NewAccount(FALSE) # None
      <4>1. NewAccount(FALSE) \in Account
        BY DEF NewAccount, Account
      <4> QED
        BY <4>1, NoAccountAssumption
    <3>2. CASE request[r].sees = "none"
      BY <1>3, <2>0, <3>1, <3>2 DEF IssueLink, TypeOK
    <3>3. CASE request[r].sees # "none"
      <4>1. user[u] \in Account
        BY <1>3, <2>0, <3>3 DEF IssueLink, TypeOK
      <4>2. [user[u] EXCEPT !.deletedOn = None] \in Account
        BY <4>1 DEF Account
      <4>3. user'[u] \in {[user[u] EXCEPT !.deletedOn = None], user[u]}
        BY <1>3, <2>0, <3>3 DEF IssueLink, TypeOK
      <4> QED
        BY <4>1, <4>2, <4>3, NoAccountAssumption
    <3> QED
      BY <3>2, <3>3
  <2> DEFINE more == Append(tokens[u], row)
             moreIns == Append(signIns[u], 0)
  <2>4. /\ DOMAIN more = DOMAIN tokens[u] \cup {Len(tokens[u]) + 1}
        /\ \A j \in DOMAIN tokens[u] : more[j] = tokens[u][j]
        /\ \A j \in DOMAIN signIns[u] : moreIns[j] = signIns[u][j]
        /\ moreIns[Len(signIns[u]) + 1] = 0
    <3>1. /\ DOMAIN more = DOMAIN tokens[u] \cup {Len(tokens[u]) + 1}
          /\ \A j \in DOMAIN tokens[u] : more[j] = tokens[u][j]
      BY <2>1, RowAdded
    <3>2. 0 \in Nat
      OBVIOUS
    <3>3. /\ \A j \in DOMAIN signIns[u] : moreIns[j] = signIns[u][j]
          /\ moreIns[Len(signIns[u]) + 1] = 0
      <4>1. signIns[u] \in Seq(Nat)
        BY <2>1
      <4> DEFINE ns == signIns[u]
      <4> HIDE DEF ns
      <4>2. \A j \in DOMAIN ns : Append(ns, 0)[j] = ns[j]
        BY <3>2, <4>1, RowAdded DEF ns
      <4>3. Append(ns, 0)[Len(ns) + 1] = 0
        BY <3>2, <4>1, RowAdded DEF ns
      <4> QED
        BY <4>2, <4>3 DEF ns
    <3> QED
      BY <3>1, <3>3
  <2>5. DOMAIN signIns[u] = DOMAIN tokens[u]
    BY <2>1, <2>2, LenProperties
  <2>6. tokens' = [tokens EXCEPT ![u] = more] /\ signIns' = [signIns EXCEPT ![u] = moreIns]
    BY <2>2
  <2> HIDE DEF more, moreIns
  <2>7. Lives(u)
    <3>1. tokens'[u] = more /\ signIns'[u] = moreIns
      BY <2>1, <2>6 DEF TypeOK
    <3>2. \A t \in DOMAIN more \ DOMAIN tokens[u] : moreIns[t] = 0
      BY <2>2, <2>4
    <3>3. \A t \in DOMAIN tokens[u] : moreIns[t] = signIns[u][t] /\ more[t] = tokens[u][t]
      BY <2>4, <2>5
    <3>4. DOMAIN tokens[u] \subseteq DOMAIN more
      BY <2>4
    <3>5. DOMAIN tokens[u] \subseteq DOMAIN tokens'[u]
      BY <3>1, <3>4
    <3>6. \A t \in DOMAIN tokens[u] : tokens'[u][t] = tokens[u][t] /\ signIns'[u][t] = signIns[u][t]
      BY <3>1, <3>3
    <3>7. \A t \in DOMAIN tokens'[u] \ DOMAIN tokens[u] : signIns'[u][t] = 0
      BY <3>1, <3>2
    <3>8. \A t \in DOMAIN tokens[u] : /\ Unused(u, t)' => Unused(u, t)
                                      /\ tokens[u][t].state = "gone" => tokens'[u][t].state = "gone"
      BY <3>6 DEF Unused
    <3> QED
      BY <2>3, <3>5, <3>6, <3>7, <3>8, Zenon DEF Lives
  <2>8. ASSUME NEW v \in Users, v # u PROVE Lives(v)
    BY <2>6, <2>8 DEF Lives, Unused, TypeOK
  <2> QED
    BY <2>7, <2>8
<1>4. ASSUME NEW u \in Users, NEW t \in DOMAIN tokens[u], TokenExpires(u, t) \/ OpenDeadLink(u, t)
      PROVE  \A v \in Users : Lives(v)
  <2>1. PICK z \in {"expired", "consumed"} :
          tokens' = [tokens EXCEPT ![u] = [tokens[u] EXCEPT ![t] = [tokens[u][t] EXCEPT !.state = z]]]
    BY <1>4 DEF TokenExpires, OpenDeadLink
  <2>2. Unused(u, t) /\ tokens[u][t].state # "gone" /\ UNCHANGED signIns
    BY <1>4 DEF TokenExpires, OpenDeadLink, Unused
  <2> QED
    BY <1>2, <2>1, <2>2, TokenIs
<1>5. ASSUME NEW r \in Requests, CodeRefused(r) PROVE \A v \in Users : Lives(v)
  <2> DEFINE u == request[r].user
             t == request[r].token
  <2>1. u \in Users /\ t \in DOMAIN tokens[u] /\ request[r] \in Request
    BY <1>5, DoingIs DEF CodeRefused, RequestKnows, Doing
  <2>2. PICK x \in Token : /\ tokens' = [tokens EXCEPT ![u] = [tokens[u] EXCEPT ![t] = x]]
                           /\ x.state = tokens[u][t].state \/ x.state = "consumed"
    <3> DEFINE burned == [tokens[u][t] EXCEPT !.state = "consumed"]
               counted == [tokens[u][t] EXCEPT !.attempts = request[r].attempts + 1]
    <3>1. burned \in Token /\ burned.state = "consumed"
      BY <2>1, TokenIs
    <3>2. counted \in Token /\ counted.state = tokens[u][t].state
      <4> DEFINE n == request[r].attempts + 1
      <4>1. n \in Nat
        BY <2>1 DEF Request
      <4> HIDE DEF n
      <4>2. /\ [tokens[u][t] EXCEPT !.attempts = n] \in Token
            /\ [tokens[u][t] EXCEPT !.attempts = n].state = tokens[u][t].state
        <5>1. tokens[u][t] \in Token
          BY <2>1, TokenIs
        <5> QED
          BY <4>1, <5>1 DEF Token
      <4> QED
        BY <4>2 DEF n
    <3>3. \/ tokens' = [tokens EXCEPT ![u] = [tokens[u] EXCEPT ![t] = burned]]
          \/ tokens' = [tokens EXCEPT ![u] = [tokens[u] EXCEPT ![t] = counted]]
      BY <1>5 DEF CodeRefused
    <3> HIDE DEF burned, counted
    <3> QED
      BY <3>1, <3>2, <3>3
  <2>3. UNCHANGED signIns /\ tokens[u][t].state # "gone"
    BY <1>5 DEF CodeRefused
  <2> QED
    BY <1>2, <2>1, <2>2, <2>3
<1>6. ASSUME NEW r \in Requests, SignIn(r) PROVE \A v \in Users : Lives(v)
  <2> DEFINE u == request[r].user
             t == request[r].token
             x == [tokens[u][t] EXCEPT !.state = "consumed"]
             given == [signIns[u] EXCEPT ![t] = signIns[u][t] + 1]
  <2>1. u \in Users /\ t \in DOMAIN tokens[u] /\ Unused(u, t) /\ request[r] \in Request
    BY <1>6, DoingIs DEF SignIn, RequestKnows, Doing
  <2>2. x \in Token /\ x.state = "consumed"
    BY <2>1, TokenIs
  <2>3. /\ tokens' = [tokens EXCEPT ![u] = [tokens[u] EXCEPT ![t] = x]]
        /\ signIns' = [signIns EXCEPT ![u] = given]
    BY <1>6 DEF SignIn
  <2>4. t \in DOMAIN signIns[u]
    <3>1. tokens[u] \in Seq(Token) /\ signIns[u] \in Seq(Nat) /\ Len(signIns[u]) = Len(tokens[u])
      BY <2>1 DEF TypeOK
    <3> QED
      BY <2>1, <3>1, LenProperties
  <2>5. /\ given[t] = signIns[u][t] + 1
        /\ \A i \in DOMAIN tokens[u] : i # t => given[i] = signIns[u][i]
    BY <2>4
  <2> HIDE DEF x, given, t, u
  <2>6. /\ \A v \in Users : DOMAIN tokens'[v] = DOMAIN tokens[v]
        /\ \A v \in Users : \A i \in DOMAIN tokens[v] :
             tokens'[v][i] = IF v = u /\ i = t THEN x ELSE tokens[v][i]
    BY <2>1, <2>2, <2>3, TokenReplaced
  <2>7. signIns'[u] = given /\ \A v \in Users : v # u => signIns'[v] = signIns[v]
    BY <2>1, <2>3 DEF TypeOK
  <2> QED
    BY <2>1, <2>2, <2>5, <2>6, <2>7 DEF Lives, Unused
<1>7. ASSUME NEW r \in Requests, FinishSweep(r) PROVE \A v \in Users : Lives(v)
  <2>1. SUFFICES ASSUME NEW u \in Users PROVE Lives(u)
    OBVIOUS
  <2>2. UNCHANGED signIns /\ tokens'[u] \in {tokens[u], Gone(tokens[u])}
    BY <1>7 DEF FinishSweep
  <2>3. /\ DOMAIN Gone(tokens[u]) = DOMAIN tokens[u]
        /\ \A t \in DOMAIN tokens[u] : Gone(tokens[u])[t].state = "gone"
    BY GoneIs
  <2>4. CASE tokens'[u] = tokens[u]
    BY <2>2, <2>4 DEF Lives, Unused
  <2>5. CASE tokens'[u] = Gone(tokens[u])
    BY <2>2, <2>3, <2>5 DEF Lives, Unused
  <2> QED
    BY <2>2, <2>4, <2>5
<1>8. CASE \/ UNCHANGED vars \/ NextDay
           \/ \E r \in Requests :
                \/ \E u \in Users : \/ RequestLink(r, u) \/ TypeCode(r, u) \/ DeleteAccount(r, u)
                                    \/ \E t \in DOMAIN tokens[u] : OpenLink(r, u, t)
                                    \/ \E e \in Entries : ClaimEntry(r, u, e)
                                    \/ \E kind \in Kinds, x \in Picks : Choose(r, u, kind, x)
                \/ LinkConflicts(r) \/ CodeRight(r) \/ CodeLate(r) \/ CloseAccount(r)
                \/ StoreEntry(r) \/ StorePick(r) \/ StartSweep(r) \/ RequestFails(r)
           \/ \E u \in Users :
                \/ \E s \in DOMAIN sessions[u] : UseSession(u, s) \/ Logout(u, s)
                \/ LogoutEverywhere(u)
                \/ \E x \in Picks : Untrack(u, x)
  <2>1. UNCHANGED <<tokens, signIns>>
    <3>1. CASE UNCHANGED vars \/ NextDay
      BY <3>1 DEF vars, NextDay
    <3>2. ASSUME NEW r \in Requests, NEW u \in Users,
                 \/ RequestLink(r, u) \/ TypeCode(r, u) \/ DeleteAccount(r, u)
                 \/ \E t \in DOMAIN tokens[u] : OpenLink(r, u, t)
          PROVE  UNCHANGED <<tokens, signIns>>
      BY <3>2 DEF RequestLink, TypeCode, DeleteAccount, OpenLink
    <3>3. ASSUME NEW r \in Requests, NEW u \in Users,
                 \/ \E e \in Entries : ClaimEntry(r, u, e)
                 \/ \E kind \in Kinds, x \in Picks : Choose(r, u, kind, x)
          PROVE  UNCHANGED <<tokens, signIns>>
      BY <3>3 DEF ClaimEntry, Choose
    <3>4. ASSUME NEW r \in Requests, LinkConflicts(r) \/ StoreEntry(r) \/ StorePick(r) \/ StartSweep(r)
          PROVE  UNCHANGED <<tokens, signIns>>
      BY <3>4 DEF LinkConflicts, StoreEntry, StorePick, StartSweep
    <3>5. ASSUME NEW r \in Requests, CodeRight(r) \/ CodeLate(r) \/ RequestFails(r) \/ CloseAccount(r)
          PROVE  UNCHANGED <<tokens, signIns>>
      BY <3>5 DEF CodeRight, CodeLate, RequestFails, CloseAccount
    <3>6. ASSUME NEW u \in Users, \/ \E s \in DOMAIN sessions[u] : UseSession(u, s) \/ Logout(u, s)
                                  \/ LogoutEverywhere(u)
          PROVE  UNCHANGED <<tokens, signIns>>
      BY <3>6 DEF UseSession, Logout, LogoutEverywhere
    <3>7. ASSUME NEW u \in Users, \E x \in Picks : Untrack(u, x)
          PROVE  UNCHANGED <<tokens, signIns>>
      BY <3>7 DEF Untrack
    <3> QED
      BY <1>8, <3>1, <3>2, <3>3, <3>4, <3>5, <3>6, <3>7
  <2> QED
    BY <1>1, <2>1
<1> QED
  BY <1>3, <1>4, <1>5, <1>6, <1>7, <1>8 DEF Next

(* A token gives at most one sign-in: only one that is not used up gives    *)
(* any, it has given none, and giving it uses it up. *)
LEMMA NextTokens ==
  ASSUME TypeOK, RequestKnows, TokenUsedOnce, UnusedIsNew, [Next]_vars
  PROVE  TokenUsedOnce' /\ UnusedIsNew'
<1>1. SUFFICES ASSUME NEW u \in Users, NEW t \in DOMAIN tokens'[u]
               PROVE  signIns'[u][t] <= 1 /\ (Unused(u, t)' => signIns'[u][t] = 0)
  BY DEF TokenUsedOnce, UnusedIsNew
<1>2. Lives(u)
  BY TokenLife
<1>3. CASE t \notin DOMAIN tokens[u]
  BY <1>2, <1>3 DEF Lives
<1>4. CASE t \in DOMAIN tokens[u]
  <2>1. signIns[u][t] <= 1 /\ (Unused(u, t) => signIns[u][t] = 0)
    BY <1>4 DEF TokenUsedOnce, UnusedIsNew
  <2> QED
    BY <1>2, <1>4, <2>1 DEF Lives
<1> QED
  BY <1>3, <1>4
-----------------------------------------------------------------------------
(* The life of an account and of its sessions.  A live session was live     *)
(* before, or comes from a sign-in that has every deletion under way beside *)
(* it; a deletion leaves none live that it saw; a purge leaves nothing, and *)
(* only an account without sessions and tokens is made anew.                *)
Sessions(u) ==
  /\ DOMAIN sessions[u] \subseteq DOMAIN sessions'[u]
  /\ \A s \in DOMAIN sessions[u] :
       /\ sessions'[u][s].after = sessions[u][s].after /\ sessions'[u][s].beside = sessions[u][s].beside
       /\ sessions'[u][s].state = "live" => sessions[u][s].state = "live"
       /\ user[u] = None /\ sessions[u][s].state = "gone" => sessions'[u][s].state = "gone"
  /\ \A s \in DOMAIN sessions'[u] \ DOMAIN sessions[u] :
       /\ user[u] # None /\ user'[u] # None /\ user'[u].deletion = user[u].deletion
       /\ user[u].deletion \in {sessions'[u][s].after} \cup sessions'[u][s].beside
       /\ \A q \in Requests : Doing(q, "delete") /\ request[q].user = u =>
            request[q].deletion \in sessions'[u][s].beside
DeletedBy(r, u) ==
  /\ Doing(r, "delete") /\ request[r].user = u /\ user'[u].deletion = request[r].deletion
  /\ \A s \in DOMAIN sessions'[u] :
       s \in DOMAIN sessions[u] /\ (sessions'[u][s].state = "live" => s \notin request[r].seen)
Holds(u) ==
  /\ user[u] # None /\ user'[u] # None =>
       user'[u].deletion = user[u].deletion \/ \E r \in Requests : DeletedBy(r, u)
  /\ user[u] # None /\ user'[u] = None =>
       /\ \A t \in DOMAIN tokens'[u] : tokens'[u][t].state = "gone"
       /\ \A s \in DOMAIN sessions'[u] : sessions'[u][s].state = "gone"
       /\ \A q \in Requests : Doing(q, "signin") \/ Doing(q, "delete") => request[q].user # u
       /\ \A q \in Requests : request'[q] = request[q] \/ request'[q] = Idle

(* Every step treats the sessions of every address so. *)
LEMMA SessionLife ==
  ASSUME TypeOK, RequestKnows, [Next]_vars
  PROVE  \A u \in Users : Sessions(u)
<1>1. ASSUME UNCHANGED sessions PROVE \A u \in Users : Sessions(u)
  BY <1>1 DEF Sessions
<1>2. ASSUME NEW u \in Users, NEW f, sessions' = [sessions EXCEPT ![u] = f], Sessions(u)
      PROVE  \A v \in Users : Sessions(v)
  <2>1. SUFFICES ASSUME NEW v \in Users, v # u PROVE Sessions(v)
    BY <1>2
  <2>2. sessions'[v] = sessions[v]
    BY <1>2, <2>1 DEF TypeOK
  <2> QED
    BY <2>2 DEF Sessions
<1>3. ASSUME NEW u \in Users, NEW ss, sessions' = [sessions EXCEPT ![u] = Revoked(u, ss)], user[u] # None
      PROVE  \A v \in Users : Sessions(v)
  <2>1. PICK f : f = Revoked(u, ss)
    OBVIOUS
  <2>2. /\ DOMAIN f = DOMAIN sessions[u]
        /\ \A s \in DOMAIN sessions[u] :
             /\ f[s].after = sessions[u][s].after /\ f[s].beside = sessions[u][s].beside
             /\ f[s].state = IF s \in ss THEN "revoked" ELSE sessions[u][s].state
    BY <2>1, RevokedIs
  <2>3. sessions'[u] = f /\ sessions' = [sessions EXCEPT ![u] = f]
    BY <1>3, <2>1 DEF TypeOK
  <2>4. Sessions(u)
    BY <1>3, <2>2, <2>3 DEF Sessions
  <2> QED
    BY <1>2, <2>3, <2>4
<1>4. ASSUME NEW u \in Users PROVE Live(u) => user[u] # None
  BY DEF Live, Status
<1>5. ASSUME NEW r \in Requests, SignIn(r) PROVE \A v \in Users : Sessions(v)
  <2>1. PICK u \in Users : u = request[r].user
    BY <1>5, AccountsAssumption, DoingIs DEF SignIn, RequestKnows, Doing
  <2>2. user[u] \in Account /\ sessions[u] \in Seq(Session) /\ request[r].deletion \in Nat
    BY <1>5, <2>1, DoingIs DEF SignIn, RequestKnows, TypeOK, Request
  <2>3. PICK old : old = Revoked(u, Pruned(request[r].seen))
    OBVIOUS
  <2>4. PICK n : n = [state |-> "live", until |-> day + SessionTtl,
                      after |-> request[r].deletion, beside |-> Beside(u, request[r].deletion)]
    OBVIOUS
  <2>5. PICK f : f = Append(old, n)
    OBVIOUS
  <2>6. sessions' = [sessions EXCEPT ![u] = f] /\ user' = [user EXCEPT ![u] = [user[u] EXCEPT !.verified = TRUE]]
    BY <1>5, <2>1, <2>3, <2>4, <2>5 DEF SignIn
  <2>7. /\ old \in Seq(Session) /\ DOMAIN old = DOMAIN sessions[u]
        /\ \A s \in DOMAIN sessions[u] :
             /\ old[s].after = sessions[u][s].after /\ old[s].beside = sessions[u][s].beside
             /\ old[s].state = "live" => sessions[u][s].state = "live"
    BY <2>3, RevokedIs
  <2>8. /\ n \in Session /\ user[u].deletion \in {n.after} \cup n.beside
        /\ \A q \in Requests : Doing(q, "delete") /\ request[q].user = u => request[q].deletion \in n.beside
    <3>1. n.after = request[r].deletion /\ n.beside = Beside(u, request[r].deletion)
      BY <2>4
    <3>2. day + SessionTtl \in Nat
      BY AccountsAssumption DEF TypeOK, Days
    <3>3. Beside(u, request[r].deletion) \subseteq Nat
      BY <2>2, BesideIs
    <3>4. n \in Session
      BY <2>2, <2>4, <3>2, <3>3, StoredIs
    <3> QED
      BY <2>2, <3>1, <3>4, BesideIs
  <2>9. /\ DOMAIN f = DOMAIN old \cup {Len(old) + 1}
        /\ \A s \in DOMAIN old : f[s] = old[s]
        /\ f[Len(old) + 1] = n /\ Len(old) + 1 \notin DOMAIN old
    BY <2>5, <2>7, <2>8, RowAdded
  <2>10. /\ [user[u] EXCEPT !.verified = TRUE] \in Account
         /\ [user[u] EXCEPT !.verified = TRUE].deletion = user[u].deletion
    BY <2>2 DEF Account
  <2>11. user'[u] # None /\ user[u] # None /\ user'[u].deletion = user[u].deletion /\ sessions'[u] = f
    BY <2>2, <2>6, <2>10, NoAccountAssumption DEF TypeOK
  <2>12. Sessions(u)
    BY <2>7, <2>8, <2>9, <2>11 DEF Sessions
  <2> QED
    BY <1>2, <2>6, <2>12
<1>6. ASSUME NEW r \in Requests, FinishSweep(r) PROVE \A v \in Users : Sessions(v)
  <2>1. SUFFICES ASSUME NEW u \in Users PROVE Sessions(u)
    OBVIOUS
  <2>2. sessions'[u] \in {sessions[u], Gone(sessions[u])}
    BY <1>6 DEF FinishSweep
  <2>3. /\ DOMAIN Gone(sessions[u]) = DOMAIN sessions[u]
        /\ \A s \in DOMAIN sessions[u] : /\ Gone(sessions[u])[s].state = "gone"
                                         /\ Gone(sessions[u])[s].after = sessions[u][s].after
                                         /\ Gone(sessions[u])[s].beside = sessions[u][s].beside
    <3>1. sessions[u] \in Seq(Session)
      BY DEF TypeOK
    <3>2. \A s \in DOMAIN sessions[u] : sessions[u][s] \in Session
      BY <3>1, LenProperties, ElementOfSeq
    <3> QED
      BY <3>2 DEF Gone, Session
  <2> QED
    BY <2>2, <2>3 DEF Sessions
<1>7. ASSUME NEW u \in Users, NEW s \in DOMAIN sessions[u], UseSession(u, s) PROVE \A v \in Users : Sessions(v)
  <2>1. sessions[u] \in Seq(Session)
    BY DEF TypeOK
  <2>2. sessions[u][s] \in Session
    BY <2>1, LenProperties, ElementOfSeq
  <2>3. PICK x : x = [sessions[u][s] EXCEPT !.until = day + SessionTtl]
    OBVIOUS
  <2>4. x.after = sessions[u][s].after /\ x.beside = sessions[u][s].beside /\ x.state = sessions[u][s].state
    BY <2>2, <2>3 DEF Session
  <2>5. PICK f : f = [sessions[u] EXCEPT ![s] = x]
    OBVIOUS
  <2>6. DOMAIN f = DOMAIN sessions[u] /\ \A i \in DOMAIN f : f[i] = IF i = s THEN x ELSE sessions[u][i]
    BY <2>5
  <2>7. sessions' = [sessions EXCEPT ![u] = f]
    BY <1>7, <2>3, <2>5 DEF UseSession
  <2>8. sessions'[u] = f
    BY <2>7 DEF TypeOK
  <2>9. Sessions(u)
    BY <2>4, <2>6, <2>8 DEF Sessions
  <2> QED
    BY <1>2, <2>7, <2>9
<1>8. ASSUME NEW u \in Users, \/ \E s \in DOMAIN sessions[u] : Logout(u, s)
                              \/ LogoutEverywhere(u)
      PROVE  \A v \in Users : Sessions(v)
  <2>1. PICK ss : sessions' = [sessions EXCEPT ![u] = Revoked(u, ss)]
    BY <1>8 DEF Logout, LogoutEverywhere
  <2>2. user[u] # None
    BY <1>4, <1>8 DEF Logout, LogoutEverywhere, SignedIn, Valid
  <2> QED
    BY <1>3, <2>1, <2>2
<1>10. ASSUME NEW r \in Requests, CloseAccount(r) PROVE \A v \in Users : Sessions(v)
  <2>1. PICK u \in Users : u = request[r].user
    BY <1>10, AccountsAssumption, DoingIs DEF CloseAccount, RequestKnows, Doing
  <2>2. user[u] # None /\ sessions' = [sessions EXCEPT ![u] = Revoked(u, request[r].seen)]
    BY <1>10, <2>1 DEF CloseAccount, RequestKnows
  <2> QED
    BY <1>3, <2>2
<1>9. CASE \/ UNCHANGED vars \/ NextDay
           \/ \E r \in Requests :
                \/ \E u \in Users : \/ RequestLink(r, u) \/ TypeCode(r, u) \/ DeleteAccount(r, u)
                                    \/ \E t \in DOMAIN tokens[u] : OpenLink(r, u, t)
                                    \/ \E e \in Entries : ClaimEntry(r, u, e)
                                    \/ \E kind \in Kinds, x \in Picks : Choose(r, u, kind, x)
                \/ IssueLink(r) \/ LinkConflicts(r) \/ CodeRefused(r) \/ CodeRight(r) \/ CodeLate(r)
                \/ StoreEntry(r) \/ StorePick(r) \/ StartSweep(r) \/ RequestFails(r)
           \/ \E u \in Users :
                \/ \E t \in DOMAIN tokens[u] : TokenExpires(u, t) \/ OpenDeadLink(u, t)
                \/ \E x \in Picks : Untrack(u, x)
  <2>1. UNCHANGED sessions
    <3>1. CASE UNCHANGED vars \/ NextDay
      BY <3>1 DEF vars, NextDay
    <3>2. ASSUME NEW r \in Requests, NEW u \in Users,
                 \/ RequestLink(r, u) \/ TypeCode(r, u) \/ DeleteAccount(r, u)
                 \/ \E t \in DOMAIN tokens[u] : OpenLink(r, u, t)
          PROVE  UNCHANGED sessions
      BY <3>2 DEF RequestLink, TypeCode, DeleteAccount, OpenLink
    <3>3. ASSUME NEW r \in Requests, NEW u \in Users,
                 \/ \E e \in Entries : ClaimEntry(r, u, e)
                 \/ \E kind \in Kinds, x \in Picks : Choose(r, u, kind, x)
          PROVE  UNCHANGED sessions
      BY <3>3 DEF ClaimEntry, Choose
    <3>4. ASSUME NEW r \in Requests, IssueLink(r) \/ LinkConflicts(r) \/ StoreEntry(r) \/ StorePick(r)
          PROVE  UNCHANGED sessions
      BY <3>4 DEF IssueLink, LinkConflicts, StoreEntry, StorePick
    <3>5. ASSUME NEW r \in Requests, \/ CodeRefused(r) \/ CodeRight(r) \/ CodeLate(r)
                                     \/ StartSweep(r) \/ RequestFails(r)
          PROVE  UNCHANGED sessions
      BY <3>5 DEF CodeRefused, CodeRight, CodeLate, StartSweep, RequestFails
    <3>6. ASSUME NEW u \in Users, \/ \E t \in DOMAIN tokens[u] : TokenExpires(u, t) \/ OpenDeadLink(u, t)
                                  \/ \E x \in Picks : Untrack(u, x)
          PROVE  UNCHANGED sessions
      BY <3>6 DEF TokenExpires, OpenDeadLink, Untrack
    <3> QED
      BY <1>9, <3>1, <3>2, <3>3, <3>4, <3>5, <3>6
  <2> QED
    BY <1>1, <2>1
<1> QED
  BY <1>5, <1>6, <1>7, <1>8, <1>9, <1>10 DEF Next

(* Every step treats every account so. *)
LEMMA AccountLife ==
  ASSUME TypeOK, RequestKnows, [Next]_vars
  PROVE  \A u \in Users : Holds(u)
<1>1. ASSUME UNCHANGED user PROVE \A u \in Users : Holds(u)
  BY <1>1 DEF Holds
<1>2. ASSUME NEW u \in Users, NEW a \in Account, user' = [user EXCEPT ![u] = a],
             user[u] # None => \/ a.deletion = user[u].deletion
                               \/ \E r \in Requests : DeletedBy(r, u)
      PROVE  \A v \in Users : Holds(v)
  <2>1. SUFFICES ASSUME NEW v \in Users PROVE Holds(v)
    OBVIOUS
  <2>2. user'[u] = a /\ a # None
    BY <1>2, NoAccountAssumption DEF TypeOK
  <2>3. v # u => user'[v] = user[v]
    BY <1>2 DEF TypeOK
  <2> QED
    BY <1>2, <2>2, <2>3 DEF Holds
<1>3. ASSUME NEW r \in Requests, IssueLink(r) PROVE \A v \in Users : Holds(v)
  <2>1. PICK u \in Users : u = request[r].user
    BY <1>3, AccountsAssumption, DoingIs DEF IssueLink, RequestKnows, Doing
  <2>2. CASE user[u] = None
    <3>1. user' = [user EXCEPT ![u] = NewAccount(FALSE)]
      BY <1>3, <2>1, <2>2 DEF IssueLink
    <3>2. NewAccount(FALSE) \in Account
      BY DEF NewAccount, Account
    <3> QED
      BY <1>2, <2>2, <3>1, <3>2
  <2>3. CASE user[u] # None
    <3>1. user[u] \in Account
      BY <2>3 DEF TypeOK
    <3>2. PICK back : back = [user[u] EXCEPT !.deletedOn = None]
      OBVIOUS
    <3>3. back \in Account /\ back.deletion = user[u].deletion
      BY <3>1, <3>2 DEF Account
    <3>4. user' = [user EXCEPT ![u] = back] \/ user' = [user EXCEPT ![u] = user[u]]
      BY <1>3, <2>1, <2>3, <3>2 DEF IssueLink
    <3> QED
      BY <1>2, <3>1, <3>3, <3>4
  <2> QED
    BY <2>2, <2>3
<1>4. ASSUME NEW r \in Requests, SignIn(r) \/ StoreEntry(r) PROVE \A v \in Users : Holds(v)
  <2>1. PICK u \in Users : u = request[r].user
    BY <1>4, AccountsAssumption, DoingIs DEF SignIn, StoreEntry, RequestKnows, Doing
  <2>2. user[u] \in Account
    BY <1>4, <2>1 DEF SignIn, StoreEntry, RequestKnows, TypeOK
  <2>3. PICK a : /\ user' = [user EXCEPT ![u] = a]
                 /\ \/ a = [user[u] EXCEPT !.verified = TRUE]
                    \/ a = [user[u] EXCEPT !.entry = request[r].entry] /\ Doing(r, "entry")
    BY <1>4, <2>1 DEF SignIn, StoreEntry
  <2>4. a \in Account /\ a.deletion = user[u].deletion /\ user' = [user EXCEPT ![u] = a]
    BY <1>4, <2>1, <2>2, <2>3 DEF SignIn, StoreEntry, Account, RequestKnows
  <2> QED
    BY <1>2, <2>4
<1>5. ASSUME NEW r \in Requests, CloseAccount(r) PROVE \A v \in Users : Holds(v)
  <2>0. PICK u \in Users : u = request[r].user
    BY <1>5, AccountsAssumption, DoingIs DEF CloseAccount, RequestKnows, Doing
  <2>1. user[u] \in Account /\ request[r].deletion \in Nat
    BY <1>5, <2>0, DoingIs DEF CloseAccount, RequestKnows, TypeOK, Request
  <2>2. PICK a : a = [user[u] EXCEPT !.deletedOn = day, !.deletion = request[r].deletion]
    OBVIOUS
  <2>3. a \in Account /\ a.deletion = request[r].deletion
    <3>1. day \in Days
      BY DEF TypeOK
    <3> QED
      BY <2>1, <2>2, <3>1 DEF Account
  <2>4. user' = [user EXCEPT ![u] = a]
    BY <1>5, <2>0, <2>2 DEF CloseAccount
  <2>5. sessions'[u] = Revoked(u, request[r].seen) /\ user'[u] = a
    BY <1>5, <2>0, <2>4 DEF CloseAccount, TypeOK
  <2>6. \A s \in DOMAIN sessions'[u] :
          s \in DOMAIN sessions[u] /\ (sessions'[u][s].state = "live" => s \notin request[r].seen)
    BY <2>5, RevokedIs
  <2>7. DeletedBy(r, u)
    BY <1>5, <2>0, <2>3, <2>5, <2>6 DEF DeletedBy, CloseAccount
  <2> QED
    BY <1>2, <2>3, <2>4, <2>7
<1>6. ASSUME NEW r \in Requests, FinishSweep(r) PROVE \A v \in Users : Holds(v)
  <2>1. SUFFICES ASSUME NEW u \in Users PROVE Holds(u)
    OBVIOUS
  <2>2. CASE u \in request[r].stale
    <3>1. user'[u] = None /\ tokens'[u] = Gone(tokens[u]) /\ sessions'[u] = Gone(sessions[u])
      BY <1>6, <2>2 DEF FinishSweep
    <3>2. /\ \A t \in DOMAIN tokens'[u] : tokens'[u][t].state = "gone"
          /\ \A s \in DOMAIN sessions'[u] : sessions'[u][s].state = "gone"
      BY <3>1, GoneIs
    <3>3. \A q \in Requests : Doing(q, "signin") \/ Doing(q, "delete") => request[q].user # u
      BY <1>6, <2>2 DEF FinishSweep
    <3>4. \A q \in Requests : request'[q] = request[q] \/ request'[q] = Idle
      BY <1>6 DEF FinishSweep, Ends, TypeOK
    <3> QED
      BY <3>1, <3>2, <3>3, <3>4 DEF Holds
  <2>3. CASE u \notin request[r].stale
    <3>1. user'[u] = user[u]
      BY <1>6, <2>3 DEF FinishSweep
    <3> QED
      BY <3>1 DEF Holds
  <2> QED
    BY <2>2, <2>3
<1>7. CASE \/ UNCHANGED vars \/ NextDay
           \/ \E r \in Requests :
                \/ \E u \in Users : \/ RequestLink(r, u) \/ TypeCode(r, u) \/ DeleteAccount(r, u)
                                    \/ \E t \in DOMAIN tokens[u] : OpenLink(r, u, t)
                                    \/ \E e \in Entries : ClaimEntry(r, u, e)
                                    \/ \E kind \in Kinds, x \in Picks : Choose(r, u, kind, x)
                \/ LinkConflicts(r) \/ CodeRefused(r) \/ CodeRight(r) \/ CodeLate(r)
                \/ StorePick(r) \/ StartSweep(r) \/ RequestFails(r)
           \/ \E u \in Users :
                \/ \E t \in DOMAIN tokens[u] : TokenExpires(u, t) \/ OpenDeadLink(u, t)
                \/ \E s \in DOMAIN sessions[u] : UseSession(u, s) \/ Logout(u, s)
                \/ LogoutEverywhere(u)
                \/ \E x \in Picks : Untrack(u, x)
  <2>1. UNCHANGED user
    <3>1. CASE UNCHANGED vars \/ NextDay
      BY <3>1 DEF vars, NextDay
    <3>2. ASSUME NEW r \in Requests, NEW u \in Users,
                 \/ RequestLink(r, u) \/ TypeCode(r, u) \/ DeleteAccount(r, u)
                 \/ \E t \in DOMAIN tokens[u] : OpenLink(r, u, t)
          PROVE  UNCHANGED user
      BY <3>2 DEF RequestLink, TypeCode, DeleteAccount, OpenLink
    <3>3. ASSUME NEW r \in Requests, NEW u \in Users,
                 \/ \E e \in Entries : ClaimEntry(r, u, e)
                 \/ \E kind \in Kinds, x \in Picks : Choose(r, u, kind, x)
          PROVE  UNCHANGED user
      BY <3>3 DEF ClaimEntry, Choose
    <3>4. ASSUME NEW r \in Requests, LinkConflicts(r) \/ StorePick(r) \/ StartSweep(r) \/ RequestFails(r)
          PROVE  UNCHANGED user
      BY <3>4 DEF LinkConflicts, StorePick, StartSweep, RequestFails
    <3>5. ASSUME NEW r \in Requests, CodeRefused(r) \/ CodeRight(r) \/ CodeLate(r)
          PROVE  UNCHANGED user
      BY <3>5 DEF CodeRefused, CodeRight, CodeLate
    <3>6. ASSUME NEW u \in Users, \/ \E t \in DOMAIN tokens[u] : TokenExpires(u, t) \/ OpenDeadLink(u, t)
                                  \/ \E x \in Picks : Untrack(u, x)
          PROVE  UNCHANGED user
      BY <3>6 DEF TokenExpires, OpenDeadLink, Untrack
    <3>7. ASSUME NEW u \in Users, \/ \E s \in DOMAIN sessions[u] : UseSession(u, s) \/ Logout(u, s)
                                  \/ LogoutEverywhere(u)
          PROVE  UNCHANGED user
      BY <3>7 DEF UseSession, Logout, LogoutEverywhere
    <3> QED
      BY <1>7, <3>1, <3>2, <3>3, <3>4, <3>5, <3>6, <3>7
  <2> QED
    BY <1>1, <2>1
<1> QED
  BY <1>3, <1>4, <1>5, <1>6, <1>7 DEF Next

(* Nothing without an account, and only sessions that have its last         *)
(* deletion behind them: one that is live after it was not seen by it, and  *)
(* so overlapped it. *)
LEMMA NextSessions ==
  ASSUME TypeOK, RequestKnows, NothingWithoutAccount, SessionsOutlive, DeletionsSee, [Next]_vars
  PROVE  NothingWithoutAccount' /\ SessionsOutlive'
<1>1. ASSUME NEW u \in Users PROVE Lives(u) /\ Sessions(u) /\ Holds(u)
  BY TokenLife, SessionLife, AccountLife
<1>2. ASSUME NEW u \in Users, user'[u] = None
      PROVE  /\ \A t \in DOMAIN tokens'[u] : tokens'[u][t].state = "gone"
             /\ \A s \in DOMAIN sessions'[u] : sessions'[u][s].state = "gone"
  <2>1. CASE user[u] = None
    <3>1. /\ \A t \in DOMAIN tokens[u] : tokens[u][t].state = "gone"
          /\ \A s \in DOMAIN sessions[u] : sessions[u][s].state = "gone"
      BY <2>1 DEF NothingWithoutAccount
    <3>2. Lives(u) /\ Sessions(u)
      BY <1>1
    <3> QED
      BY <1>2, <2>1, <3>1, <3>2 DEF Lives, Sessions
  <2>2. CASE user[u] # None
    BY <1>1, <1>2, <2>2 DEF Holds
  <2> QED
    BY <2>1, <2>2
<1>3. ASSUME NEW u \in Users, NEW s \in DOMAIN sessions'[u], sessions'[u][s].state = "live"
      PROVE  user'[u] # None /\ user'[u].deletion \in {sessions'[u][s].after} \cup sessions'[u][s].beside
  <2>1. user'[u] # None
    BY <1>2, <1>3
  <2>2. CASE s \in DOMAIN sessions[u]
    <3>1. /\ sessions[u][s].state = "live" /\ sessions'[u][s].after = sessions[u][s].after
          /\ sessions'[u][s].beside = sessions[u][s].beside
      BY <1>1, <1>3, <2>2 DEF Sessions
    <3>2. user[u] # None /\ user[u].deletion \in {sessions[u][s].after} \cup sessions[u][s].beside
      BY <2>2, <3>1 DEF SessionsOutlive
    <3>3. CASE user'[u].deletion = user[u].deletion
      BY <2>1, <3>1, <3>2, <3>3
    <3>4. ASSUME NEW r \in Requests, DeletedBy(r, u)
          PROVE  user'[u].deletion \in sessions'[u][s].beside
      <4>1. Doing(r, "delete") /\ request[r].user = u /\ s \notin request[r].seen
        BY <1>3, <3>4 DEF DeletedBy
      <4>2. request[r].deletion \in sessions[u][s].beside
        BY <2>2, <3>1, <4>1 DEF DeletionsSee
      <4> QED
        BY <3>1, <3>4, <4>2 DEF DeletedBy
    <3>5. user'[u].deletion = user[u].deletion \/ \E r \in Requests : DeletedBy(r, u)
      BY <1>1, <2>1, <3>2 DEF Holds
    <3> QED
      BY <2>1, <3>3, <3>4, <3>5
  <2>3. CASE s \notin DOMAIN sessions[u]
    BY <1>1, <1>3, <2>3 DEF Sessions
  <2> QED
    BY <2>1, <2>2, <2>3
<1> QED
  BY <1>2, <1>3 DEF NothingWithoutAccount, SessionsOutlive
-----------------------------------------------------------------------------
(* While a sign-in is under way nobody else uses up the token it holds: the *)
(* row is locked for everyone, the sweep included. *)
LEMMA HeldTokenKept ==
  ASSUME TypeOK, RequestKnows, OneHolder, [Next]_vars,
         NEW q \in Requests, Doing(q, "signin"), request'[q] = request[q],
         NEW u \in Users, u = request[q].user, NEW t, t = request[q].token
  PROVE  Unused(u, t)'
<1>1. t \in DOMAIN tokens[u] /\ Unused(u, t) /\ Locked(u, t)
  BY DEF RequestKnows, Locked
<1>2. CASE UNCHANGED tokens
  BY <1>1, <1>2 DEF Unused
<1>3. ASSUME NEW v \in Users, NEW i \in DOMAIN tokens[v], NEW x \in Token,
             tokens' = [tokens EXCEPT ![v] = [tokens[v] EXCEPT ![i] = x]],
             v # u \/ i # t \/ x.state = "expired"
      PROVE  Unused(u, t)'
  <2>1. tokens'[u][t] = IF u = v /\ t = i THEN x ELSE tokens[u][t]
    BY <1>1, <1>3, TokenReplaced
  <2> QED
    BY <1>1, <1>3, <2>1 DEF Unused
<1>4. ASSUME NEW r \in Requests, IssueLink(r) PROVE Unused(u, t)'
  <2>1. PICK v \in Users : v = request[r].user
    BY <1>4, AccountsAssumption, DoingIs DEF IssueLink, RequestKnows, Doing
  <2>2. PICK row \in Token : tokens' = [tokens EXCEPT ![v] = Append(tokens[v], row)]
    BY <1>4, <2>1 DEF IssueLink, Token
  <2>3. tokens[v] \in Seq(Token)
    BY DEF TypeOK
  <2>4. PICK more : more = Append(tokens[v], row)
    OBVIOUS
  <2>5. \A j \in DOMAIN tokens[v] : more[j] = tokens[v][j]
    BY <2>3, <2>4, RowAdded
  <2>6. tokens'[u] = IF u = v THEN more ELSE tokens[u]
    BY <2>2, <2>4 DEF TypeOK
  <2> QED
    BY <1>1, <2>5, <2>6 DEF Unused
<1>5. ASSUME NEW v \in Users, NEW i \in DOMAIN tokens[v], TokenExpires(v, i) PROVE Unused(u, t)'
  <2>1. PICK x : x = [tokens[v][i] EXCEPT !.state = "expired"]
    OBVIOUS
  <2>2. x \in Token /\ x.state = "expired"
    BY <2>1, TokenIs, ZenonT(30)
  <2>3. tokens' = [tokens EXCEPT ![v] = [tokens[v] EXCEPT ![i] = x]]
    BY <1>5, <2>1 DEF TokenExpires
  <2> QED
    BY <1>3, <2>2, <2>3
<1>6. ASSUME NEW v \in Users, NEW i \in DOMAIN tokens[v], OpenDeadLink(v, i) PROVE Unused(u, t)'
  <2>1. PICK x : x = [tokens[v][i] EXCEPT !.state = "consumed"]
    OBVIOUS
  <2>2. x \in Token
    BY <2>1, TokenIs
  <2>3. tokens' = [tokens EXCEPT ![v] = [tokens[v] EXCEPT ![i] = x]]
    BY <1>6, <2>1 DEF OpenDeadLink
  <2>4. v # u \/ i # t
    BY <1>1, <1>6 DEF OpenDeadLink
  <2> QED
    BY <1>3, <2>2, <2>3, <2>4
<1>7. ASSUME NEW r \in Requests, CodeRefused(r) PROVE Unused(u, t)'
  <2>0. PICK v \in Users : v = request[r].user
    BY <1>7, AccountsAssumption, DoingIs DEF CodeRefused, RequestKnows, Doing
  <2>1. PICK i \in DOMAIN tokens[v] : v = request[r].user /\ i = request[r].token
    BY <1>7, <2>0 DEF CodeRefused, RequestKnows
  <2>2. v # u \/ i # t
    BY <1>1, <1>7, <2>1 DEF CodeRefused
  <2>3. PICK n \in Nat : n = request[r].attempts + 1
    BY <1>7, DoingIs, SMTT(30) DEF CodeRefused, Request
  <2>4. PICK burned, counted : /\ burned = [tokens[v][i] EXCEPT !.state = "consumed"]
                               /\ counted = [tokens[v][i] EXCEPT !.attempts = n]
    OBVIOUS
  <2>5. burned \in Token /\ counted \in Token
    BY <2>4, TokenIs
  <2>6. \/ tokens' = [tokens EXCEPT ![v] = [tokens[v] EXCEPT ![i] = burned]]
        \/ tokens' = [tokens EXCEPT ![v] = [tokens[v] EXCEPT ![i] = counted]]
    BY <1>7, <2>1, <2>3, <2>4 DEF CodeRefused
  <2> QED
    BY <1>3, <2>2, <2>5, <2>6
<1>8. ASSUME NEW r \in Requests, SignIn(r) PROVE Unused(u, t)'
  <2>0. PICK v \in Users : v = request[r].user
    BY <1>8, AccountsAssumption, DoingIs DEF SignIn, RequestKnows, Doing
  <2>1. PICK i \in DOMAIN tokens[v] : v = request[r].user /\ i = request[r].token
    BY <1>8, <2>0 DEF SignIn, RequestKnows
  <2>2. r # q
    BY <1>8, EndsTyped DEF SignIn, Doing
  <2>3. v # u \/ i # t
    BY <1>8, <2>1, <2>2 DEF OneHolder, SignIn
  <2>4. PICK x : x = [tokens[v][i] EXCEPT !.state = "consumed"]
    OBVIOUS
  <2>5. x \in Token
    BY <2>4, TokenIs
  <2>6. tokens' = [tokens EXCEPT ![v] = [tokens[v] EXCEPT ![i] = x]]
    BY <1>8, <2>1, <2>4 DEF SignIn
  <2> QED
    BY <1>3, <2>3, <2>5, <2>6
<1>9. ASSUME NEW r \in Requests, FinishSweep(r) PROVE Unused(u, t)'
  <2>1. tokens'[u] = tokens[u]
    BY <1>9 DEF FinishSweep
  <2> QED
    BY <1>1, <2>1 DEF Unused
<1>10. CASE \/ UNCHANGED vars \/ NextDay
            \/ \E r \in Requests :
                 \/ \E v \in Users : \/ RequestLink(r, v) \/ TypeCode(r, v) \/ DeleteAccount(r, v)
                                     \/ \E i \in DOMAIN tokens[v] : OpenLink(r, v, i)
                                     \/ \E e \in Entries : ClaimEntry(r, v, e)
                                     \/ \E kind \in Kinds, x \in Picks : Choose(r, v, kind, x)
                 \/ LinkConflicts(r) \/ CodeRight(r) \/ CodeLate(r) \/ CloseAccount(r)
                 \/ StoreEntry(r) \/ StorePick(r) \/ StartSweep(r) \/ RequestFails(r)
            \/ \E v \in Users :
                 \/ \E s \in DOMAIN sessions[v] : UseSession(v, s) \/ Logout(v, s)
                 \/ LogoutEverywhere(v)
                 \/ \E x \in Picks : Untrack(v, x)
  <2>1. UNCHANGED tokens
    <3>1. CASE UNCHANGED vars \/ NextDay
      BY <3>1 DEF vars, NextDay
    <3>2. ASSUME NEW r \in Requests, NEW v \in Users,
                 \/ RequestLink(r, v) \/ TypeCode(r, v) \/ DeleteAccount(r, v)
                 \/ \E i \in DOMAIN tokens[v] : OpenLink(r, v, i)
          PROVE  UNCHANGED tokens
      BY <3>2 DEF RequestLink, TypeCode, DeleteAccount, OpenLink
    <3>3. ASSUME NEW r \in Requests, NEW v \in Users,
                 \/ \E e \in Entries : ClaimEntry(r, v, e)
                 \/ \E kind \in Kinds, x \in Picks : Choose(r, v, kind, x)
          PROVE  UNCHANGED tokens
      BY <3>3 DEF ClaimEntry, Choose
    <3>4. ASSUME NEW r \in Requests, LinkConflicts(r) \/ StoreEntry(r) \/ StorePick(r) \/ StartSweep(r)
          PROVE  UNCHANGED tokens
      BY <3>4 DEF LinkConflicts, StoreEntry, StorePick, StartSweep
    <3>5. ASSUME NEW r \in Requests, CodeRight(r) \/ CodeLate(r) \/ RequestFails(r) \/ CloseAccount(r)
          PROVE  UNCHANGED tokens
      BY <3>5 DEF CodeRight, CodeLate, RequestFails, CloseAccount
    <3>6. ASSUME NEW v \in Users, \/ \E s \in DOMAIN sessions[v] : UseSession(v, s) \/ Logout(v, s)
                                  \/ LogoutEverywhere(v)
          PROVE  UNCHANGED tokens
      BY <3>6 DEF UseSession, Logout, LogoutEverywhere
    <3>7. ASSUME NEW v \in Users, \E x \in Picks : Untrack(v, x)
          PROVE  UNCHANGED tokens
      BY <3>7 DEF Untrack
    <3> QED
      BY <1>10, <3>1, <3>2, <3>3, <3>4, <3>5, <3>6, <3>7
  <2> QED
    BY <1>2, <2>1
<1> QED
  BY <1>4, <1>5, <1>6, <1>7, <1>8, <1>9, <1>10 DEF Next

(* What one step makes of one request: it goes on as it was, it ends, or it *)
(* begins (a typed code that is right goes on as a sign-in). *)
LEMMA RequestLife ==
  ASSUME TypeOK, [Next]_vars, NEW r \in Requests
  PROVE  \/ request'[r] = request[r]
         \/ request'[r] = Idle
         \/ \E u \in Users : \/ RequestLink(r, u) \/ TypeCode(r, u) \/ DeleteAccount(r, u)
                             \/ \E t \in DOMAIN tokens[u] : OpenLink(r, u, t)
                             \/ \E e \in Entries : ClaimEntry(r, u, e)
                             \/ \E kind \in Kinds, x \in Picks : Choose(r, u, kind, x)
         \/ CodeRight(r) \/ StartSweep(r)
<1>1. ASSUME NEW q \in Requests, NEW what, Begin(q, what), q # r PROVE request'[r] = request[r]
  BY <1>1 DEF Begin, TypeOK
<1>2. ASSUME NEW q \in Requests, Ends(q) PROVE request'[r] = request[r] \/ request'[r] = Idle
  BY <1>2 DEF Ends, TypeOK
<1>3. CASE \/ UNCHANGED vars \/ NextDay
           \/ \E u \in Users :
                \/ \E t \in DOMAIN tokens[u] : TokenExpires(u, t) \/ OpenDeadLink(u, t)
                \/ \E s \in DOMAIN sessions[u] : UseSession(u, s) \/ Logout(u, s)
                \/ LogoutEverywhere(u)
                \/ \E x \in Picks : Untrack(u, x)
  <2>1. UNCHANGED request
    BY <1>3 DEF vars, NextDay, TokenExpires, OpenDeadLink, UseSession, Logout, LogoutEverywhere,
                Untrack
  <2> QED
    BY <2>1
<1>4. ASSUME NEW q \in Requests,
             \/ IssueLink(q) \/ LinkConflicts(q) \/ CodeRefused(q) \/ CodeLate(q) \/ SignIn(q)
             \/ CloseAccount(q)
             \/ StoreEntry(q) \/ StorePick(q) \/ FinishSweep(q) \/ RequestFails(q)
      PROVE  request'[r] = request[r] \/ request'[r] = Idle
  <2>1. Ends(q)
    BY <1>4 DEF IssueLink, LinkConflicts, CodeRefused, CodeLate, SignIn, CloseAccount, StoreEntry,
                StorePick, FinishSweep, RequestFails
  <2> QED
    BY <1>2, <2>1
<1>5. ASSUME NEW q \in Requests, q # r,
             \/ \E u \in Users : \/ RequestLink(q, u) \/ TypeCode(q, u) \/ DeleteAccount(q, u)
                                 \/ \E t \in DOMAIN tokens[u] : OpenLink(q, u, t)
                                 \/ \E e \in Entries : ClaimEntry(q, u, e)
                                 \/ \E kind \in Kinds, x \in Picks : Choose(q, u, kind, x)
             \/ StartSweep(q)
      PROVE  request'[r] = request[r]
  <2>1. \E what : Begin(q, what)
    BY <1>5, Zenon DEF RequestLink, TypeCode, DeleteAccount, OpenLink, ClaimEntry, Choose, StartSweep
  <2> QED
    BY <1>1, <1>5, <2>1
<1>6. ASSUME NEW q \in Requests, q # r, CodeRight(q) PROVE request'[r] = request[r]
  BY <1>6 DEF CodeRight, TypeOK
<1> QED
  BY <1>3, <1>4, <1>5, <1>6 DEF Next

(* What a request knows stays known until it ends: its token is still       *)
(* there, and nobody else has used it up. *)
LEMMA NextKnows ==
  ASSUME TypeOK, RequestKnows, OneHolder, NothingWithoutAccount, [Next]_vars
  PROVE  RequestKnows' /\ OneHolder'
<1> DEFINE Knows(r) ==
      /\ request[r] # Idle /\ request[r].op # "sweep" => request[r].user \in Users
      /\ Doing(r, "code") \/ Doing(r, "signin") => request[r].token \in DOMAIN tokens[request[r].user]
      /\ Doing(r, "signin") => /\ user[request[r].user] # None
                               /\ Unused(request[r].user, request[r].token)
      /\ Doing(r, "delete") => user[request[r].user] # None
      /\ Doing(r, "entry") => request[r].entry \in Entries /\ request[r].sees = "none"
      /\ Doing(r, "pick") => request[r].pick \in Kinds \X Picks
<1>1. ASSUME NEW r \in Requests, request'[r] = request[r] PROVE Knows(r)'
  <2>1. Knows(r)
    BY DEF RequestKnows
  <2>2. CASE request[r] = Idle \/ request[r].op = "sweep"
    BY <1>1, <2>2 DEF Doing
  <2>3. CASE request[r] # Idle /\ request[r].op # "sweep"
    <3>1. PICK u \in Users : u = request[r].user
      BY <2>1, <2>3
    <3>2. DOMAIN tokens[u] \subseteq DOMAIN tokens'[u]
      BY TokenLife DEF Lives
    <3>3. ASSUME Doing(r, "signin") PROVE user'[u] # None /\ Unused(u, request[r].token)'
      <4>1. user[u] # None
        BY <2>1, <3>1, <3>3
      <4>2. user'[u] # None
        BY <3>1, <3>3, <4>1, AccountLife DEF Holds
      <4>3. PICK t : t = request[r].token
        OBVIOUS
      <4>4. Unused(u, t)'
        BY <1>1, <3>1, <3>3, <4>3, HeldTokenKept
      <4> QED
        BY <1>1, <4>2, <4>3, <4>4 DEF Unused
    <3>4. ASSUME Doing(r, "delete") PROVE user'[u] # None
      <4>1. user[u] # None
        BY <2>1, <3>1, <3>4
      <4> QED
        BY <3>1, <3>4, <4>1, AccountLife DEF Holds
    <3> QED
      BY <1>1, <2>1, <3>1, <3>2, <3>3, <3>4 DEF Doing, Unused
  <2> QED
    BY <2>2, <2>3
<1>2. ASSUME NEW r \in Requests, request'[r] = Idle PROVE Knows(r)'
  BY <1>2 DEF Doing
<1>3. Blank.user = None /\ Idle.op = None
  BY DEF Blank, Idle
<1>4. ASSUME NEW r \in Requests, NEW u \in Users, RequestLink(r, u) PROVE Knows(r)'
  <2>1. request'[r] = [Blank EXCEPT !.op = "link", !.user = u, !.sees = Status(u)]
    BY <1>4 DEF RequestLink, Begin, TypeOK
  <2>2. request'[r].op = "link" /\ request'[r].user = u
    BY <2>1 DEF Blank
  <2> QED
    BY <2>2 DEF Doing
<1>5. ASSUME NEW r \in Requests, NEW u \in Users, TypeCode(r, u) PROVE Knows(r)'
  <2>1. PICK t : t = Max(LiveTokens(u))
    OBVIOUS
  <2>2. request'[r] = [Blank EXCEPT !.op = "code", !.user = u, !.token = t,
                                    !.attempts = tokens[u][t].attempts, !.deletion = user[u].deletion]
    BY <1>5, <2>1 DEF TypeCode, Begin, TypeOK
  <2>3. request'[r].op = "code" /\ request'[r].user = u /\ request'[r].token = t
    BY <2>2 DEF Blank
  <2>4. t \in DOMAIN tokens[u]
    <3>1. tokens[u] \in Seq(Token)
      BY DEF TypeOK
    <3>2. DOMAIN tokens[u] = 1..Len(tokens[u]) /\ Len(tokens[u]) \in Nat
      BY <3>1, LenProperties
    <3>3. LiveTokens(u) \subseteq Nat /\ LiveTokens(u) # {} /\ \A y \in LiveTokens(u) : y <= Len(tokens[u])
      BY <1>5, <3>2 DEF TypeCode, LiveTokens
    <3>4. t \in LiveTokens(u)
      BY <2>1, <3>2, <3>3, MaxOfNaturals
    <3> QED
      BY <3>4 DEF LiveTokens
  <2>5. tokens' = tokens
    BY <1>5 DEF TypeCode
  <2> QED
    BY <2>3, <2>4, <2>5 DEF Doing
<1>6. ASSUME NEW r \in Requests, NEW u \in Users, NEW t \in DOMAIN tokens[u], NEW d,
             request'[r] = SigningIn(u, t, d), user'[u] # None, Unused(u, t), UNCHANGED tokens
      PROVE  Knows(r)'
  <2>1. request'[r].op = "signin" /\ request'[r].user = u /\ request'[r].token = t
    BY <1>6 DEF SigningIn, Blank
  <2> QED
    BY <1>6, <2>1 DEF Doing, Unused
<1>7. ASSUME NEW r \in Requests, NEW u \in Users, NEW t \in DOMAIN tokens[u], OpenLink(r, u, t) PROVE Knows(r)'
  <2>1. /\ request'[r] = SigningIn(u, t, user[u].deletion)
        /\ UNCHANGED <<user, tokens>> /\ Unused(u, t) /\ user[u] # None
    BY <1>7 DEF OpenLink, Begin, TypeOK, Unused, Live, Status
  <2> QED
    BY <1>6, <2>1
<1>8. ASSUME NEW r \in Requests, CodeRight(r) PROVE Knows(r)'
  <2>1. PICK u \in Users : u = request[r].user
    BY <1>8, AccountsAssumption, DoingIs DEF CodeRight, RequestKnows, Doing
  <2>2. PICK t \in DOMAIN tokens[u] : t = request[r].token
    BY <1>8, <2>1 DEF CodeRight, RequestKnows
  <2>3. request'[r] = SigningIn(u, t, request[r].deletion) /\ UNCHANGED <<user, tokens>> /\ Unused(u, t)
    BY <1>8, <2>1, <2>2 DEF CodeRight, TypeOK
  <2>4. user[u] # None
    BY <2>3 DEF NothingWithoutAccount, Unused
  <2> QED
    BY <1>6, <2>3, <2>4
<1>9. ASSUME NEW r \in Requests, NEW u \in Users, NEW e \in Entries, ClaimEntry(r, u, e) PROVE Knows(r)'
  <2>1. request'[r] = [Blank EXCEPT !.op = "entry", !.user = u, !.entry = e, !.sees = "none"]
    BY <1>9 DEF ClaimEntry, Begin, TypeOK
  <2>2. /\ request'[r].op = "entry" /\ request'[r].user = u /\ request'[r].entry = e
        /\ request'[r].sees = "none"
    BY <2>1 DEF Blank
  <2> QED
    BY <2>2 DEF Doing
<1>10. ASSUME NEW r \in Requests, NEW u \in Users, NEW kind \in Kinds, NEW x \in Picks, Choose(r, u, kind, x)
       PROVE  Knows(r)'
  <2>1. request'[r] = [Blank EXCEPT !.op = "pick", !.user = u, !.pick = <<kind, x>>]
    BY <1>10 DEF Choose, Begin, TypeOK
  <2>2. request'[r].op = "pick" /\ request'[r].user = u /\ request'[r].pick = <<kind, x>>
    BY <2>1 DEF Blank
  <2> QED
    BY <2>2 DEF Doing
<1>11. ASSUME NEW r \in Requests, StartSweep(r) PROVE request'[r].op = "sweep"
  BY <1>11 DEF StartSweep, Begin, TypeOK, Blank
<1>17. ASSUME NEW r \in Requests, NEW u \in Users, DeleteAccount(r, u) PROVE Knows(r)'
  <2>1. request'[r] = [Blank EXCEPT !.op = "delete", !.user = u, !.seen = OpenSessions(u), !.deletion = asked + 1]
    BY <1>17 DEF DeleteAccount, Begin, TypeOK
  <2>2. request'[r].op = "delete" /\ request'[r].user = u
    BY <2>1 DEF Blank
  <2>3. user'[u] # None
    BY <1>17 DEF DeleteAccount, SignedIn, Valid, Live, Status
  <2> QED
    BY <2>2, <2>3 DEF Doing
<1>12. ASSUME NEW r \in Requests PROVE Knows(r)'
  <2>1. CASE StartSweep(r)
    BY <1>11, <2>1 DEF Doing
  <2> HIDE DEF Knows
  <2> QED
    BY <1>1, <1>2, <1>4, <1>5, <1>7, <1>8, <1>9, <1>10, <1>17, <2>1, RequestLife
<1>13. RequestKnows'
  BY <1>12 DEF RequestKnows
<1>14. ASSUME NEW q \in Requests, NEW r \in Requests, q # r,
              Doing(q, "signin")', Doing(r, "signin")', request'[q].user = request'[r].user,
              request'[q].token = request'[r].token, request'[q] = request[q]
       PROVE  FALSE
  <2>1. Doing(q, "signin")
    BY <1>14 DEF Doing
  <2>2. PICK u \in Users : u = request[q].user
    BY <2>1, AccountsAssumption, DoingIs DEF RequestKnows, Doing
  <2>3. PICK t : t = request[q].token
    OBVIOUS
  <2>4. Locked(u, t) /\ request'[r].user = u /\ request'[r].token = t
    BY <1>14, <2>1, <2>2, <2>3 DEF Locked
  <2>5. request'[r] # Idle /\ request'[r].op = "signin"
    BY <1>14 DEF Doing
  <2>6. CASE request'[r] = request[r]
    <3>1. Doing(r, "signin")
      BY <1>14, <2>6 DEF Doing
    <3> QED
      BY <1>14, <2>1, <2>6, <3>1 DEF OneHolder
  <2>7. ASSUME NEW v \in Users, RequestLink(r, v) \/ TypeCode(r, v) \/ DeleteAccount(r, v) PROVE FALSE
    <3>1. request'[r].op \in {"link", "code", "delete"}
      <4>1. ASSUME NEW what, Begin(r, what) PROVE request'[r] = what
        BY <4>1 DEF Begin, TypeOK
      <4>2. RequestLink(r, v) => request'[r].op = "link"
        BY <4>1 DEF RequestLink, Blank
      <4>3. TypeCode(r, v) => request'[r].op = "code"
        BY <4>1 DEF TypeCode, Blank
      <4>4. DeleteAccount(r, v) => request'[r].op = "delete"
        BY <4>1 DEF DeleteAccount, Blank
      <4> QED
        BY <2>7, <4>2, <4>3, <4>4
    <3> QED
      BY <2>5, <3>1
  <2>8. ASSUME NEW v \in Users, NEW i \in DOMAIN tokens[v], OpenLink(r, v, i) PROVE FALSE
    <3>1. request'[r] = SigningIn(v, i, user[v].deletion) /\ ~Locked(v, i)
      BY <2>8 DEF OpenLink, Begin, TypeOK
    <3>2. v = u /\ i = t
      BY <2>4, <3>1 DEF SigningIn, Blank
    <3> QED
      BY <2>4, <3>1, <3>2
  <2>9. ASSUME NEW v \in Users, NEW e \in Entries, ClaimEntry(r, v, e) PROVE FALSE
    <3>1. request'[r].op = "entry"
      BY <2>9 DEF ClaimEntry, Begin, TypeOK, Blank
    <3> QED
      BY <2>5, <3>1
  <2>10. ASSUME NEW v \in Users, NEW kind \in Kinds, NEW x \in Picks, Choose(r, v, kind, x) PROVE FALSE
    <3>1. request'[r].op = "pick"
      BY <2>10 DEF Choose, Begin, TypeOK, Blank
    <3> QED
      BY <2>5, <3>1
  <2>11. CASE CodeRight(r)
    <3>1. PICK v \in Users : v = request[r].user
      BY <2>11, AccountsAssumption, DoingIs DEF CodeRight, RequestKnows, Doing
    <3>2. PICK i : i = request[r].token
      OBVIOUS
    <3>3. request'[r] = SigningIn(v, i, request[r].deletion) /\ ~Locked(v, i)
      BY <2>11, <3>1, <3>2 DEF CodeRight, TypeOK
    <3>4. v = u /\ i = t
      BY <2>4, <3>3 DEF SigningIn, Blank
    <3> QED
      BY <2>4, <3>3, <3>4
  <2>12. CASE StartSweep(r)
    BY <1>11, <2>5, <2>12
  <2> QED
    BY <2>5, <2>6, <2>7, <2>8, <2>9, <2>10, <2>11, <2>12, RequestLife
<1>15. ASSUME NEW q \in Requests, NEW r \in Requests, q # r PROVE request'[q] = request[q] \/ request'[r] = request[r]
  <2>1. \A p \in Requests : \A what : Begin(p, what) => \A o \in Requests \ {p} : request'[o] = request[o]
    BY DEF Begin, TypeOK
  <2>2. \A p \in Requests : Ends(p) => \A o \in Requests \ {p} : request'[o] = request[o]
    BY DEF Ends, TypeOK
  <2>3. UNCHANGED request \/ \E p \in Requests : \A o \in Requests \ {p} : request'[o] = request[o]
    <3>1. CASE \/ UNCHANGED vars \/ NextDay
               \/ \E u \in Users :
                    \/ \E t \in DOMAIN tokens[u] : TokenExpires(u, t) \/ OpenDeadLink(u, t)
                    \/ \E s \in DOMAIN sessions[u] : UseSession(u, s) \/ Logout(u, s)
                    \/ LogoutEverywhere(u)
                    \/ \E x \in Picks : Untrack(u, x)
      BY <3>1 DEF vars, NextDay, TokenExpires, OpenDeadLink, UseSession, Logout, LogoutEverywhere,
                  Untrack
    <3>2. ASSUME NEW p \in Requests,
                 \/ \E u \in Users : \/ RequestLink(p, u) \/ TypeCode(p, u) \/ DeleteAccount(p, u)
                                     \/ \E t \in DOMAIN tokens[u] : OpenLink(p, u, t)
                                     \/ \E e \in Entries : ClaimEntry(p, u, e)
                                     \/ \E kind \in Kinds, x \in Picks : Choose(p, u, kind, x)
                 \/ StartSweep(p)
          PROVE  \E what : Begin(p, what)
      BY <3>2, Zenon DEF RequestLink, TypeCode, DeleteAccount, OpenLink, ClaimEntry, Choose, StartSweep
    <3>3. ASSUME NEW p \in Requests, CodeRight(p) PROVE \A o \in Requests \ {p} : request'[o] = request[o]
      BY <3>3 DEF CodeRight, TypeOK
    <3>4. ASSUME NEW p \in Requests,
                 \/ IssueLink(p) \/ LinkConflicts(p) \/ CodeRefused(p) \/ CodeLate(p) \/ SignIn(p)
                 \/ CloseAccount(p)
                 \/ StoreEntry(p) \/ StorePick(p) \/ FinishSweep(p) \/ RequestFails(p)
          PROVE  Ends(p)
      BY <3>4 DEF IssueLink, LinkConflicts, CodeRefused, CodeLate, SignIn, CloseAccount, StoreEntry,
                  StorePick, FinishSweep, RequestFails
    <3> QED
      BY <2>1, <2>2, <3>1, <3>2, <3>3, <3>4 DEF Next
  <2> QED
    BY <1>15, <2>3
<1>16. OneHolder'
  BY <1>14, <1>15 DEF OneHolder
<1> QED
  BY <1>13, <1>16

(* A deletion goes on to have seen what is live but for the sign-ins that   *)
(* store their session beside it: it begins with all that is live. *)
LEMMA NextSees ==
  ASSUME TypeOK, RequestKnows, DeletionsSee, [Next]_vars
  PROVE  DeletionsSee'
<1>1. SUFFICES ASSUME NEW r \in Requests, Doing(r, "delete")', NEW u, u = request'[r].user,
                      NEW s \in DOMAIN sessions'[u], sessions'[u][s].state = "live"
               PROVE  s \in request'[r].seen \/ request'[r].deletion \in sessions'[u][s].beside
  BY DEF DeletionsSee
<1>2. request'[r] # Idle /\ request'[r].op = "delete"
  BY <1>1 DEF Doing
<1>3. CASE request'[r] = request[r]
  <2>1. Doing(r, "delete") /\ u = request[r].user
    BY <1>1, <1>3 DEF Doing
  <2>2. u \in Users
    BY <2>1, AccountsAssumption, DoingIs DEF RequestKnows, Doing
  <2>3. Sessions(u)
    BY <2>2, SessionLife
  <2>4. CASE s \in DOMAIN sessions[u]
    BY <1>1, <1>3, <2>1, <2>3, <2>4 DEF DeletionsSee, Sessions
  <2>5. CASE s \notin DOMAIN sessions[u]
    BY <1>1, <1>3, <2>1, <2>3, <2>5 DEF Sessions
  <2> QED
    BY <2>4, <2>5
<1>4. ASSUME NEW what, Begin(r, what) PROVE request'[r] = what
  BY <1>4 DEF Begin, TypeOK
<1>5. ASSUME NEW v \in Users, DeleteAccount(r, v) PROVE s \in request'[r].seen
  <2>1. request'[r] = [Blank EXCEPT !.op = "delete", !.user = v, !.seen = OpenSessions(v), !.deletion = asked + 1]
    BY <1>4, <1>5 DEF DeleteAccount
  <2>2. request'[r].user = v /\ request'[r].seen = OpenSessions(v)
    BY <2>1 DEF Blank
  <2>3. UNCHANGED sessions
    BY <1>5 DEF DeleteAccount
  <2> QED
    BY <1>1, <2>2, <2>3 DEF OpenSessions
<1>6. ASSUME NEW v \in Users, NEW t \in DOMAIN tokens[v], OpenLink(r, v, t) PROVE FALSE
  BY <1>2, <1>4, <1>6 DEF OpenLink, SigningIn, Blank
<1>7. ASSUME NEW v \in Users, RequestLink(r, v) \/ TypeCode(r, v) PROVE FALSE
  <2>1. ~RequestLink(r, v)
    BY <1>2, <1>4 DEF RequestLink, Blank
  <2>2. ~TypeCode(r, v)
    BY <1>2, <1>4 DEF TypeCode, Blank
  <2> QED
    BY <1>7, <2>1, <2>2
<1>8. ASSUME NEW v \in Users, NEW e \in Entries, ClaimEntry(r, v, e) PROVE FALSE
  BY <1>2, <1>4, <1>8 DEF ClaimEntry, Blank
<1>9. ASSUME NEW v \in Users, NEW kind \in Kinds, NEW x \in Picks, Choose(r, v, kind, x) PROVE FALSE
  BY <1>2, <1>4, <1>9 DEF Choose, Blank
<1>10. CASE CodeRight(r)
  <2>1. PICK what : what = SigningIn(request[r].user, request[r].token, request[r].deletion)
    OBVIOUS
  <2>2. request'[r] = what
    BY <1>10, <2>1 DEF CodeRight, TypeOK
  <2> QED
    BY <1>2, <2>1, <2>2 DEF SigningIn, Blank
<1>11. CASE StartSweep(r)
  BY <1>2, <1>4, <1>11 DEF StartSweep, Blank
<1> QED
  BY <1>2, <1>3, <1>5, <1>6, <1>7, <1>8, <1>9, <1>10, <1>11, RequestLife
-----------------------------------------------------------------------------
(* Two live accounts with one entry: the step that makes it so, a return or *)
(* a claim that was overtaken, is one of the known ways. *)
LEMMA NextOwners ==
  ASSUME TypeOK, RequestKnows, EntryHasOneOwner, [Next]_vars
  PROVE  EntryHasOneOwner'
<1>1. ASSUME NEW u \in Users
      PROVE  /\ Live(u) => user[u] \in Account /\ user[u].deletedOn = None
             /\ user[u] \in Account /\ user[u].deletedOn = None => Live(u)
             /\ Live(u)' => user'[u] # None /\ user'[u].deletedOn = None
  BY NoAccountAssumption DEF Live, Status, TypeOK
<1>2. ASSUME UNCHANGED <<user, shared>> PROVE EntryHasOneOwner'
  BY <1>2 DEF EntryHasOneOwner, Live, Status
<1>3. ASSUME NEW w \in Users, NEW a, user' = [user EXCEPT ![w] = a], shared \subseteq shared',
             a.deletedOn = None /\ a.entry # None =>
               \/ Live(w) /\ user[w].entry = a.entry
               \/ a.entry \in shared'
               \/ OthersWith(w, a.entry) = {}
      PROVE  EntryHasOneOwner'
  <2>1. user'[w] = a /\ \A o \in Users \ {w} : user'[o] = user[o]
    BY <1>3 DEF TypeOK
  <2>2. \A o \in Users \ {w} : Live(o)' => Live(o)
    BY <2>1 DEF Live, Status
  <2>3. ASSUME NEW o \in Users \ {w}, Live(w)', Live(o)', a.entry # None, user'[o].entry = a.entry
        PROVE  a.entry \in shared'
    <3>1. a.deletedOn = None
      BY <1>1, <2>1, <2>3
    <3>2. o \in OthersWith(w, a.entry)
      BY <2>1, <2>2, <2>3 DEF OthersWith
    <3>3. CASE Live(w) /\ user[w].entry = a.entry
      BY <1>3, <2>1, <2>2, <2>3, <3>3 DEF EntryHasOneOwner
    <3> QED
      BY <1>3, <2>3, <3>1, <3>2, <3>3
  <2> QED
    BY <1>3, <2>1, <2>2, <2>3 DEF EntryHasOneOwner
<1>4. ASSUME NEW r \in Requests, IssueLink(r) PROVE EntryHasOneOwner'
  <2>1. PICK u \in Users : u = request[r].user
    BY <1>4, AccountsAssumption, DoingIs DEF IssueLink, RequestKnows, Doing
  <2>2. /\ shared \subseteq shared'
        /\ \A e \in Entries :
             request[r].sees = "deleted" /\ Status(u) = "deleted" /\ user[u].entry = e /\ OthersWith(u, e) # {}
             => e \in shared'
    <3>1. shared' = shared \cup
            {e \in Entries : /\ request[r].sees = "deleted" /\ Status(u) = "deleted"
                             /\ user[u].entry = e /\ OthersWith(u, e) # {}}
      BY <1>4, <2>1 DEF IssueLink
    <3>2. PICK found : found = {e \in Entries : /\ request[r].sees = "deleted" /\ Status(u) = "deleted"
                                                /\ user[u].entry = e /\ OthersWith(u, e) # {}}
      OBVIOUS
    <3>3. shared' = shared \cup found
      BY <3>1, <3>2
    <3>4. ASSUME NEW e \in Entries, request[r].sees = "deleted", Status(u) = "deleted",
                 user[u].entry = e, OthersWith(u, e) # {}
          PROVE  e \in found
      BY <3>2, <3>4
    <3>5. shared \subseteq shared'
      BY <3>3
    <3>6. found \subseteq shared'
      BY <3>3
    <3> QED
      BY <3>4, <3>5, <3>6, Zenon
  <2>3. CASE user[u] = None
    <3>1. user' = [user EXCEPT ![u] = NewAccount(FALSE)] /\ NewAccount(FALSE).entry = None
      BY <1>4, <2>1, <2>3 DEF IssueLink, NewAccount
    <3> QED
      BY <1>3, <2>2, <3>1
  <2>4. CASE user[u] # None
    <3>1. user[u] \in Account
      BY <2>4 DEF TypeOK
    <3>2. PICK back : back = [user[u] EXCEPT !.deletedOn = None]
      OBVIOUS
    <3>3. back.entry = user[u].entry /\ user[u].entry \in Entries \cup {None}
      BY <3>1, <3>2 DEF Account
    <3>4. CASE request[r].sees = "deleted"
      <4>1. user' = [user EXCEPT ![u] = back]
        BY <1>4, <2>1, <2>4, <3>2, <3>4 DEF IssueLink
      <4>2. Live(u) \/ Status(u) = "deleted"
        BY <2>4 DEF Live, Status
      <4>3. back.entry # None => \/ Live(u) /\ user[u].entry = back.entry
                                 \/ back.entry \in shared'
                                 \/ OthersWith(u, back.entry) = {}
        BY <2>2, <3>3, <3>4, <4>2
      <4> QED
        BY <1>3, <2>2, <4>1, <4>3
    <3>5. CASE request[r].sees # "deleted"
      <4>1. user' = [user EXCEPT ![u] = user[u]]
        BY <1>4, <2>1, <2>4, <3>5 DEF IssueLink
      <4> QED
        BY <1>1, <1>3, <2>2, <3>1, <4>1
    <3> QED
      BY <3>4, <3>5
  <2> QED
    BY <2>3, <2>4
<1>5. ASSUME NEW r \in Requests, SignIn(r) PROVE EntryHasOneOwner'
  <2>1. PICK u \in Users : u = request[r].user
    BY <1>5, AccountsAssumption, DoingIs DEF SignIn, RequestKnows, Doing
  <2>2. user[u] \in Account
    BY <1>5, <2>1 DEF SignIn, RequestKnows, TypeOK
  <2>3. PICK a : a = [user[u] EXCEPT !.verified = TRUE]
    OBVIOUS
  <2>4. a.entry = user[u].entry /\ a.deletedOn = user[u].deletedOn
    BY <2>2, <2>3 DEF Account
  <2>5. user' = [user EXCEPT ![u] = a] /\ UNCHANGED shared
    BY <1>5, <2>1, <2>3 DEF SignIn
  <2> QED
    BY <1>1, <1>3, <2>2, <2>4, <2>5
<1>6. ASSUME NEW r \in Requests, StoreEntry(r) PROVE EntryHasOneOwner'
  <2>1. PICK u \in Users : u = request[r].user
    BY <1>6, AccountsAssumption, DoingIs DEF StoreEntry, RequestKnows, Doing
  <2>2. user[u] \in Account /\ request[r].sees = "none"
    BY <1>6, <2>1 DEF StoreEntry, RequestKnows, TypeOK
  <2>3. PICK e : e = request[r].entry
    OBVIOUS
  <2>4. PICK a : a = [user[u] EXCEPT !.entry = e]
    OBVIOUS
  <2>5. a.entry = e
    BY <2>2, <2>4 DEF Account
  <2>6. user' = [user EXCEPT ![u] = a] /\ (shared' = IF OthersWith(u, e) # {} THEN shared \cup {e} ELSE shared)
    BY <1>6, <2>1, <2>2, <2>3, <2>4 DEF StoreEntry
  <2>7. shared \subseteq shared' /\ (e \in shared' \/ OthersWith(u, e) = {})
    BY <2>6
  <2> QED
    BY <1>3, <2>5, <2>6, <2>7
<1>7. ASSUME NEW r \in Requests, CloseAccount(r) PROVE EntryHasOneOwner'
  <2>0. PICK u \in Users : u = request[r].user
    BY <1>7, AccountsAssumption, DoingIs DEF CloseAccount, RequestKnows, Doing
  <2>1. user[u] \in Account
    BY <1>7, <2>0 DEF CloseAccount, RequestKnows, TypeOK
  <2>2. PICK a : a = [user[u] EXCEPT !.deletedOn = day, !.deletion = request[r].deletion]
    OBVIOUS
  <2>3. a.deletedOn # None
    <3>1. day # None
      BY AccountsAssumption DEF TypeOK, Days
    <3> QED
      BY <2>1, <2>2, <3>1 DEF Account
  <2>4. user' = [user EXCEPT ![u] = a] /\ UNCHANGED shared
    BY <1>7, <2>0, <2>2 DEF CloseAccount
  <2> QED
    BY <1>3, <2>3, <2>4
<1>8. ASSUME NEW r \in Requests, FinishSweep(r) PROVE EntryHasOneOwner'
  <2>1. \A u \in Users : user'[u] = None \/ user'[u] = user[u]
    BY <1>8 DEF FinishSweep
  <2>2. \A u \in Users : Live(u)' => Live(u) /\ user'[u] = user[u]
    BY <2>1 DEF Live, Status
  <2> QED
    BY <1>8, <2>2 DEF FinishSweep, EntryHasOneOwner
<1>9. ASSUME NEW r \in Requests, NEW u \in Users,
             \/ RequestLink(r, u) \/ TypeCode(r, u) \/ DeleteAccount(r, u)
             \/ \E t \in DOMAIN tokens[u] : OpenLink(r, u, t)
             \/ \E e \in Entries : ClaimEntry(r, u, e)
             \/ \E kind \in Kinds, x \in Picks : Choose(r, u, kind, x)
      PROVE  UNCHANGED <<user, shared>>
  BY <1>9 DEF RequestLink, TypeCode, DeleteAccount, OpenLink, ClaimEntry, Choose
<1>10. ASSUME NEW r \in Requests,
              \/ LinkConflicts(r) \/ CodeRefused(r) \/ CodeRight(r) \/ CodeLate(r)
              \/ StorePick(r) \/ StartSweep(r) \/ RequestFails(r)
       PROVE  UNCHANGED <<user, shared>>
  BY <1>10 DEF LinkConflicts, CodeRefused, CodeRight, CodeLate, StorePick, StartSweep, RequestFails
<1>11. ASSUME NEW u \in Users,
              \/ \E t \in DOMAIN tokens[u] : TokenExpires(u, t) \/ OpenDeadLink(u, t)
              \/ \E s \in DOMAIN sessions[u] : UseSession(u, s) \/ Logout(u, s)
              \/ LogoutEverywhere(u)
              \/ \E x \in Picks : Untrack(u, x)
       PROVE  UNCHANGED <<user, shared>>
  BY <1>11 DEF TokenExpires, OpenDeadLink, UseSession, Logout, LogoutEverywhere, Untrack
<1>12. CASE UNCHANGED vars \/ NextDay
  <2>1. UNCHANGED <<user, shared>>
    BY <1>12 DEF vars, NextDay
  <2> QED
    BY <1>2, <2>1
<1> QED
  BY <1>2, <1>4, <1>5, <1>6, <1>7, <1>8, <1>9, <1>10, <1>11, <1>12 DEF Next
-----------------------------------------------------------------------------
(* The choices that an account has stored and those that it has under way   *)
(* are together no more than its limit and the requests that may overlap:   *)
(* who begins to choose has stored less than the limit. *)
LEMMA NextChoices ==
  ASSUME TypeOK, RequestKnows, ChoicesCounted, [Next]_vars
  PROVE  ChoicesCounted'
<1> DEFINE Bound == Limit + Cardinality(Requests) - 1
           Counted(u, kind) == /\ IsFiniteSet(Chosen(u, kind))
                               /\ Cardinality(Chosen(u, kind)) + Cardinality(Pending(u, kind)) <= Bound
<1>0. /\ Limit \in Nat /\ Cardinality(Requests) \in Nat /\ Bound \in Int
      /\ IsFiniteSet(Requests)
  BY AccountsAssumption, FS_CardinalityType
<1>1. ASSUME NEW u \in Users, NEW kind \in Kinds
      PROVE  /\ IsFiniteSet(Pending(u, kind)) /\ Cardinality(Pending(u, kind)) \in Nat
             /\ Cardinality(Pending(u, kind)) <= Cardinality(Requests)
             /\ IsFiniteSet(Pending(u, kind)') /\ Cardinality(Pending(u, kind)') \in Nat
             /\ Cardinality(Pending(u, kind)') <= Cardinality(Requests)
             /\ IsFiniteSet(Chosen(u, kind)) /\ Cardinality(Chosen(u, kind)) \in Nat
             /\ Cardinality(Chosen(u, kind)) + Cardinality(Pending(u, kind)) <= Bound
  <2>1. Pending(u, kind) \subseteq Requests /\ Pending(u, kind)' \subseteq Requests
    BY DEF Pending
  <2>2. /\ IsFiniteSet(Chosen(u, kind))
        /\ Cardinality(Chosen(u, kind)) + Cardinality(Pending(u, kind)) <= Bound
    BY DEF ChoicesCounted
  <2> QED
    BY <1>0, <2>1, <2>2, FS_Subset, FS_CardinalityType
<1>2. ASSUME NEW u \in Users, NEW kind \in Kinds,
             Chosen(u, kind)' \subseteq Chosen(u, kind), Pending(u, kind)' \subseteq Pending(u, kind)
      PROVE  Counted(u, kind)'
  <2>1. /\ IsFiniteSet(Chosen(u, kind)') /\ Cardinality(Chosen(u, kind)') \in Nat
        /\ Cardinality(Chosen(u, kind)') <= Cardinality(Chosen(u, kind))
    BY <1>1, <1>2, FS_Subset, FS_CardinalityType
  <2>2. Cardinality(Pending(u, kind)') <= Cardinality(Pending(u, kind))
    BY <1>1, <1>2, FS_Subset
  <2> QED
    BY <1>0, <1>1, <2>1, <2>2
<1>3. ASSUME NEW u \in Users, NEW kind \in Kinds, NEW r \in Pending(u, kind)',
             request'[r] # request[r]
      PROVE  \E x \in Picks : Choose(r, u, kind, x)
  <2>1. /\ r \in Requests /\ request'[r] # Idle /\ request'[r].op = "pick" /\ request'[r].user = u
        /\ request'[r].pick[1] = kind
    BY DEF Pending, Doing
  <2> DEFINE Other(what) == what.op # "pick"
  <2>0. ASSUME NEW what, Begin(r, what) \/ request' = [request EXCEPT ![r] = what] PROVE request'[r] = what
    BY <2>0, <2>1 DEF Begin, TypeOK
  <2>2. ASSUME NEW v \in Users, \/ RequestLink(r, v) \/ TypeCode(r, v) \/ DeleteAccount(r, v)
                                \/ \E t \in DOMAIN tokens[v] : OpenLink(r, v, t)
                                \/ \E e \in Entries : ClaimEntry(r, v, e)
        PROVE  FALSE
    <3>1. ASSUME RequestLink(r, v) PROVE Other(request'[r])
      BY <2>0, <3>1 DEF RequestLink, Blank
    <3>2. ASSUME TypeCode(r, v) PROVE Other(request'[r])
      BY <2>0, <3>2 DEF TypeCode, Blank
    <3>3. ASSUME NEW t, OpenLink(r, v, t) PROVE Other(request'[r])
      BY <2>0, <3>3 DEF OpenLink, SigningIn, Blank
    <3>4. ASSUME NEW e, ClaimEntry(r, v, e) PROVE Other(request'[r])
      BY <2>0, <3>4 DEF ClaimEntry, Blank
    <3>5. ASSUME DeleteAccount(r, v) PROVE Other(request'[r])
      BY <2>0, <3>5 DEF DeleteAccount, Blank
    <3> QED
      BY <2>1, <2>2, <3>1, <3>2, <3>3, <3>4, <3>5
  <2>3. CASE CodeRight(r) \/ StartSweep(r)
    <3>1. ASSUME CodeRight(r) PROVE Other(request'[r])
      <4>1. PICK what : what = SigningIn(request[r].user, request[r].token, request[r].deletion)
        OBVIOUS
      <4>2. request' = [request EXCEPT ![r] = what]
        BY <3>1, <4>1 DEF CodeRight
      <4>3. request'[r] = what
        BY <2>0, <4>2
      <4> QED
        BY <4>1, <4>3 DEF SigningIn, Blank
    <3>2. ASSUME StartSweep(r) PROVE Other(request'[r])
      BY <2>0, <3>2 DEF StartSweep, Blank
    <3> QED
      BY <2>1, <2>3, <3>1, <3>2
  <2>4. PICK v \in Users, k \in Kinds, x \in Picks : Choose(r, v, k, x)
    BY <1>3, <2>1, <2>2, <2>3, RequestLife
  <2>5. request'[r] = [Blank EXCEPT !.op = "pick", !.user = v, !.pick = <<k, x>>]
    BY <2>1, <2>4 DEF Choose, Begin, TypeOK
  <2>6. v = u /\ k = kind
    BY <2>1, <2>5 DEF Blank
  <2> QED
    BY <2>4, <2>6
<1>4. ASSUME NEW u \in Users, NEW kind \in Kinds, ~\E r \in Requests, x \in Picks : Choose(r, u, kind, x)
      PROVE  Pending(u, kind)' \subseteq Pending(u, kind)
  <2>1. SUFFICES ASSUME NEW r \in Pending(u, kind)' PROVE r \in Pending(u, kind)
    OBVIOUS
  <2>2. request'[r] = request[r]
    BY <1>3, <1>4, <2>1 DEF Pending
  <2> QED
    BY <2>1, <2>2 DEF Pending, Doing
<1>5. ASSUME NEW u \in Users, NEW kind \in Kinds, NEW r \in Requests, NEW x \in Picks, Choose(r, u, kind, x)
      PROVE  Counted(u, kind)'
  <2>1. Chosen(u, kind)' = Chosen(u, kind) /\ Cardinality(Chosen(u, kind)) < Limit
    BY <1>5 DEF Choose, Chosen
  <2> QED
    BY <1>0, <1>1, <2>1
<1>6. ASSUME NEW u \in Users, NEW kind \in Kinds, NEW r \in Requests, StorePick(r)
      PROVE  Counted(u, kind)'
  <2>1. PICK v \in Users : v = request[r].user
    BY <1>6, AccountsAssumption, DoingIs DEF StorePick, RequestKnows, Doing
  <2>2. PICK p \in Kinds \X Picks : p = request[r].pick
    BY <1>6 DEF StorePick, RequestKnows
  <2>3. /\ picks' = [picks EXCEPT ![v] = @ \cup {p}] /\ p \notin picks[v] /\ Doing(r, "pick")
        /\ request' = [request EXCEPT ![r] = Idle]
    BY <1>6, <2>1, <2>2 DEF StorePick, Ends
  <2>4. Pending(u, kind)' = Pending(u, kind) \ {r}
    BY <2>3 DEF Pending, Doing, TypeOK
  <2>5. CASE u = v /\ p[1] = kind
    <3>1. Chosen(u, kind)' = Chosen(u, kind) \cup {p} /\ p \notin Chosen(u, kind)
      BY <2>3, <2>5 DEF Chosen, TypeOK
    <3>2. r \in Pending(u, kind)
      BY <2>1, <2>2, <2>3, <2>5 DEF Pending
    <3>3. /\ IsFiniteSet(Chosen(u, kind)') /\ Cardinality(Chosen(u, kind)') = Cardinality(Chosen(u, kind)) + 1
      BY <1>1, <3>1, FS_AddElement
    <3>4. Cardinality(Pending(u, kind)') = Cardinality(Pending(u, kind)) - 1
      BY <1>1, <2>4, <3>2, FS_RemoveElement, ZenonT(30)
    <3> QED
      BY <1>0, <1>1, <3>3, <3>4
  <2>6. CASE ~(u = v /\ p[1] = kind)
    <3>1. Chosen(u, kind)' \subseteq Chosen(u, kind)
      BY <2>3, <2>6 DEF Chosen, TypeOK
    <3> QED
      BY <1>2, <2>4, <3>1
  <2> QED
    BY <2>5, <2>6
<1>7. ASSUME NEW u \in Users, NEW kind \in Kinds, ~\E r \in Requests : StorePick(r)
      PROVE  Chosen(u, kind)' \subseteq Chosen(u, kind)
  <2>1. picks'[u] \subseteq picks[u]
    <3>1. ASSUME NEW r \in Requests, FinishSweep(r) PROVE picks'[u] \subseteq picks[u]
      BY <3>1 DEF FinishSweep
    <3>2. ASSUME NEW v \in Users, NEW x \in Picks, Untrack(v, x) PROVE picks'[u] \subseteq picks[u]
      BY <3>2 DEF Untrack, TypeOK
    <3>3. ASSUME NEW r \in Requests, NEW v \in Users,
                 \/ RequestLink(r, v) \/ TypeCode(r, v) \/ DeleteAccount(r, v)
                 \/ \E t \in DOMAIN tokens[v] : OpenLink(r, v, t)
                 \/ \E e \in Entries : ClaimEntry(r, v, e)
                 \/ \E k \in Kinds, x \in Picks : Choose(r, v, k, x)
          PROVE  UNCHANGED picks
      BY <3>3 DEF RequestLink, TypeCode, DeleteAccount, OpenLink, ClaimEntry, Choose
    <3>4. ASSUME NEW r \in Requests,
                 \/ IssueLink(r) \/ LinkConflicts(r) \/ CodeRefused(r) \/ CodeRight(r) \/ CodeLate(r)
                 \/ SignIn(r) \/ CloseAccount(r) \/ StoreEntry(r) \/ StartSweep(r) \/ RequestFails(r)
          PROVE  UNCHANGED picks
      BY <3>4 DEF IssueLink, LinkConflicts, CodeRefused, CodeRight, CodeLate, SignIn, CloseAccount,
                  StoreEntry, StartSweep, RequestFails
    <3>5. ASSUME NEW v \in Users,
                 \/ \E t \in DOMAIN tokens[v] : TokenExpires(v, t) \/ OpenDeadLink(v, t)
                 \/ \E s \in DOMAIN sessions[v] : UseSession(v, s) \/ Logout(v, s)
                 \/ LogoutEverywhere(v)
          PROVE  UNCHANGED picks
      BY <3>5 DEF TokenExpires, OpenDeadLink, UseSession, Logout, LogoutEverywhere
    <3>6. CASE UNCHANGED vars \/ NextDay
      BY <3>6 DEF vars, NextDay
    <3> QED
      BY <1>7, <3>1, <3>2, <3>3, <3>4, <3>5, <3>6 DEF Next
  <2> QED
    BY <2>1 DEF Chosen
<1>8. ASSUME NEW u \in Users, NEW kind \in Kinds PROVE Counted(u, kind)'
  <2> HIDE DEF Counted
  <2> QED
    BY <1>2, <1>4, <1>5, <1>6, <1>7
<1> QED
  BY <1>8 DEF ChoicesCounted
-----------------------------------------------------------------------------
(* The invariant is inductive. *)
LEMMA NextIInv == IInv /\ [Next]_vars => IInv'
  BY NextType, NextKnows, NextSees, NextTokens, NextSessions, NextOwners, NextChoices, Zenon DEF IInv

(* What it says of sessions and choices is more than what is promised. *)
LEMMA IInvSuffices == IInv => DeletionEndsSessions /\ ChoicesBounded
<1> SUFFICES ASSUME IInv PROVE DeletionEndsSessions /\ ChoicesBounded
  OBVIOUS
<1>1. DeletionEndsSessions
  BY DEF IInv, SessionsOutlive, DeletionEndsSessions, Valid
<1>2. ASSUME NEW u \in Users, NEW kind \in Kinds
      PROVE  Cardinality(Chosen(u, kind)) <= Limit + Cardinality(Requests) - 1
  <2>1. Pending(u, kind) \subseteq Requests
    BY DEF Pending
  <2>2. Cardinality(Pending(u, kind)) \in Nat /\ Cardinality(Requests) \in Nat
    BY <2>1, AccountsAssumption, FS_Subset, FS_CardinalityType
  <2>3. /\ IsFiniteSet(Chosen(u, kind))
        /\ Cardinality(Chosen(u, kind)) + Cardinality(Pending(u, kind)) <= Limit + Cardinality(Requests) - 1
    BY DEF IInv, ChoicesCounted
  <2>4. Cardinality(Chosen(u, kind)) \in Nat
    BY <2>3, FS_CardinalityType
  <2> QED
    BY <2>2, <2>3, <2>4, AccountsAssumption
<1> QED
  BY <1>1, <1>2 DEF ChoicesBounded

(* The invariant holds in every state of every behaviour. *)
LEMMA IInvAlways == Spec => []IInv
  BY InitIInv, NextIInv, PTL DEF Spec

(* The tables, the requests and their history have their types: the rows of *)
(* auth_tokens and sessions, the limits of a request. *)
THEOREM AccountsTypeCorrect == Spec => []TypeOK
<1>1. IInv => TypeOK
  BY DEF IInv
<1> QED
  BY <1>1, IInvAlways, PTL

(* A token is good for one sign-in, by its link or by its code, however     *)
(* many requests bring them at once (consume_magic_link and                 *)
(* consume_sign_in_code of auth_service.py). *)
THEOREM TokenUsedOnceAlways == Spec => []TokenUsedOnce
<1>1. IInv => TokenUsedOnce
  BY DEF IInv
<1> QED
  BY <1>1, IInvAlways, PTL

(* A deletion ends for good every session but those whose sign-in overlapped *)
(* it: a session that is valid, after a return included, comes from a       *)
(* sign-in that had read of its account's last deletion, or that was under  *)
(* way during it (delete_me of routes/profile.py revokes before it commits, *)
(* and a sign-in does not look at the account again). *)
THEOREM DeletionEndsSessionsAlways == Spec => []DeletionEndsSessions
  BY IInvSuffices, IInvAlways, PTL

(* Two accounts share an FPL entry only by a return or by claims at once    *)
(* (update_me of routes/profile.py looks before it writes). *)
THEOREM EntryHasOneOwnerAlways == Spec => []EntryHasOneOwner
<1>1. IInv => EntryHasOneOwner
  BY DEF IInv
<1> QED
  BY <1>1, IInvAlways, PTL

(* A free account exceeds its allowance of leagues and rivals only as far   *)
(* as its requests overlap (track_league and choose_free_rival count, then  *)
(* insert). *)
THEOREM ChoicesBoundedAlways == Spec => []ChoicesBounded
  BY IInvSuffices, IInvAlways, PTL
=============================================================================
