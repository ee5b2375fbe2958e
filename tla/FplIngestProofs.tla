---------------------------- MODULE FplIngestProofs ----------------------------
(***************************************************************************)
(* Proofs about FplIngest for any documents and versions of them, any      *)
(* league, page size and caps, and any number of readers.                  *)
(***************************************************************************)
EXTENDS FplIngest, FiniteSetTheorems, SequenceTheorems, TLAPS

(* A stored validator is one of a version, and every item of that version   *)
(* that the mirror knew is stored in that version.                          *)
ValidatorsHold ==
  \A d \in Docs :
    /\ etag[d] \in Versions(d) \cup {0}
    /\ etag[d] # 0 => \A i \in Content[d][etag[d]] \ dropped[d] : rows[d][i] = etag[d]

(* What a reader is to store is a version of the document, and its breaker  *)
(* has counted the failures of the fetch it is at, and no others.           *)
ReaderHolds ==
  \A r \in Readers : reader[r] # Idle =>
    /\ \A d \in Docs : reader[r].kept[d] \in Versions(d) \cup {0}
    /\ reader[r].failed = reader[r].tries

(* A read of the standings during which nobody left.  Who was there when it *)
(* began is there now; so far its pages are the first ranks of some of the  *)
(* members there are now; and if it has read them all and no name twice, it *)
(* has read everybody who was there when it began.                          *)
PagesAddUp ==
  \A r \in Readers : Doing(r, {"league"}) =>
    /\ reader[r].since \in 1..upstream["league"] /\ reader[r].page >= 1
    /\ ~Left(r) =>
         /\ ToSet(Standings[reader[r].since]) \subseteq ToSet(Now)
         /\ reader[r].more => /\ Len(reader[r].got) = (reader[r].page - 1) * PageSize
                              /\ Len(reader[r].got) <= Len(Now)
                              /\ ToSet(reader[r].got) \subseteq ToSet(Now)
         /\ ~reader[r].more /\ ~Repeats(reader[r].got) =>
              ToSet(Standings[reader[r].since]) \subseteq ToSet(reader[r].got)

IInv == TypeOK /\ ValidatorsHold /\ ReaderHolds /\ PagesAddUp /\ PruneIsTruthful
-----------------------------------------------------------------------------
(* The Min of two ranks is the lesser (where a page ends, Page). *)
LEMMA LesserOfTwo ==
  ASSUME NEW a \in Int, NEW b \in Int
  PROVE  Min({a, b}) = IF a <= b THEN a ELSE b
<1>1. \E x \in {a, b} : \A y \in {a, b} : x <= y
  BY a <= b \/ b <= a
<1>2. PICK x \in {a, b} : x = Min({a, b}) /\ \A y \in {a, b} : x <= y
  BY <1>1 DEF Min
<1> QED
  BY <1>2

(* A table without repetitions has as many ranks as members. *)
LEMMA RanksAreMembers ==
  ASSUME NEW S, NEW s \in Seq(S), IsInjective(s)
  PROVE  IsFiniteSet(ToSet(s)) /\ Cardinality(ToSet(s)) = Len(s)
<1>1. Len(s) \in Nat /\ DOMAIN s = 1..Len(s) /\ s \in [1..Len(s) -> S]
  BY LenProperties
<1>2. s \in [1..Len(s) -> ToSet(s)]
  BY <1>1 DEF ToSet
<1>3. s \in Injection(1..Len(s), ToSet(s))
  BY <1>1, <1>2 DEF Injection, IsInjective
<1>4. s \in Surjection(1..Len(s), ToSet(s))
  BY <1>1, <1>2 DEF Surjection, ToSet
<1>5. ExistsBijection(1..Len(s), ToSet(s))
  BY <1>3, <1>4 DEF ExistsBijection, Bijection
<1>6. IsFiniteSet(1..Len(s))
  BY <1>1, FS_Interval
<1> QED
  BY <1>1, <1>5, <1>6, FS_CountingElements, FS_Bijection

(* A table whose members are all in another is no longer than it, and if it *)
(* is as long it has the same members. *)
LEMMA TablesCompared ==
  ASSUME NEW S, NEW s \in Seq(S), NEW t \in Seq(S), IsInjective(s), IsInjective(t),
         ToSet(s) \subseteq ToSet(t)
  PROVE  Len(s) <= Len(t) /\ (Len(s) = Len(t) => ToSet(s) = ToSet(t))
  BY RanksAreMembers, FS_Subset

(* Who is in two pages put together was in one of them. *)
LEMMA PagesTogether ==
  ASSUME NEW S, NEW s \in Seq(S), NEW t \in Seq(S)
  PROVE  ToSet(s \o t) = ToSet(s) \cup ToSet(t)
<1>1. /\ Len(s) \in Nat /\ DOMAIN s = 1..Len(s)
      /\ Len(t) \in Nat /\ DOMAIN t = 1..Len(t)
  BY LenProperties
<1>2. /\ s \o t \in Seq(S) /\ Len(s \o t) = Len(s) + Len(t)
      /\ \A i \in 1..Len(s) + Len(t) : (s \o t)[i] = IF i <= Len(s) THEN s[i] ELSE t[i - Len(s)]
  BY ConcatProperties
<1>3. DOMAIN (s \o t) = 1..Len(s) + Len(t)
  BY <1>2, LenProperties
<1> DEFINE both == s \o t
<1>4. \A i \in DOMAIN both : both[i] \in ToSet(s) \cup ToSet(t)
  BY <1>1, <1>2, <1>3 DEF ToSet
<1>5. \A i \in DOMAIN s : i \in DOMAIN both /\ both[i] = s[i]
  BY <1>1, <1>2, <1>3
<1>6. \A i \in DOMAIN t : Len(s) + i \in DOMAIN both /\ both[Len(s) + i] = t[i]
  BY <1>1, <1>2, <1>3
<1> HIDE DEF both
<1>7. ToSet(both) = ToSet(s) \cup ToSet(t)
  BY <1>4, <1>5, <1>6 DEF ToSet
<1> QED
  BY <1>7 DEF both

(* The table of the league now is one of its tables. *)
LEMMA NowIs ==
  ASSUME TypeOK
  PROVE  /\ upstream["league"] \in 1..Len(Standings) /\ upstream["league"] \in Nat
         /\ Now \in Seq(Members) /\ IsInjective(Now)
         /\ \A v \in 1..Len(Standings) : Standings[v] \in Seq(Members) /\ IsInjective(Standings[v])
<1>1. upstream["league"] \in 1..Len(Standings)
  BY DEF TypeOK, Sources, Versions
<1>2. DOMAIN Standings = 1..Len(Standings) /\ Len(Standings) \in Nat
  BY FplAssumption, LenProperties
<1>3. \A v \in 1..Len(Standings) : Standings[v] \in Seq(Members) /\ IsInjective(Standings[v])
  BY <1>2, FplAssumption, ElementOfSeq
<1> QED
  BY <1>1, <1>2, <1>3 DEF Now

(* A page lists members of the league as it is now. *)
LEMMA PageTyped ==
  ASSUME TypeOK, NEW p \in Nat \ {0}
  PROVE  Page(p) \in Seq(Members) /\ ToSet(Page(p)) \subseteq ToSet(Now)
<1>1. Len(Now) \in Nat /\ DOMAIN Now = 1..Len(Now) /\ \A i \in 1..Len(Now) : Now[i] \in Members
  BY NowIs, LenProperties, ElementOfSeq
<1> DEFINE first == (p - 1) * PageSize + 1
           last == Min({p * PageSize, Len(Now)})
<1>2. first \in Int /\ first >= 1 /\ p * PageSize \in Int
  BY FplAssumption
<1>3. last \in Int /\ last <= Len(Now)
  BY <1>1, <1>2, LesserOfTwo
<1> HIDE DEF first, last
<1>4. \A i \in first..last : Now[i] \in Members /\ Now[i] \in ToSet(Now)
  BY <1>1, <1>2, <1>3 DEF ToSet
<1>5. Page(p) = SubSeq(Now, first, last)
  BY DEF Page, first, last
<1>6. Page(p) \in Seq(Members) /\ Page(p) \in Seq(ToSet(Now))
  BY <1>2, <1>3, <1>4, <1>5, SubSeqProperties
<1>7. ToSet(Page(p)) \subseteq ToSet(Now)
  BY <1>6, LenProperties, ElementOfSeq DEF ToSet
<1> QED
  BY <1>6, <1>7

(* A page of the standings as the API cuts it: the ranks from its first on, *)
(* full if there is a next one, and else as many as are left. *)
LEMMA PageIs ==
  ASSUME TypeOK, NEW p \in Nat \ {0}, (p - 1) * PageSize <= Len(Now)
  PROVE  /\ HasNext(p) => /\ (p - 1) * PageSize + Len(Page(p)) = p * PageSize
                          /\ p * PageSize <= Len(Now)
         /\ ~HasNext(p) => (p - 1) * PageSize + Len(Page(p)) = Len(Now)
<1> DEFINE K == (p - 1) * PageSize
           L == Len(Now)
           last == Min({p * PageSize, L})
<1>1. PageSize \in Nat /\ PageSize >= 1 /\ K \in Nat /\ p * PageSize = K + PageSize
  BY FplAssumption
<1>2. L \in Nat /\ DOMAIN Now = 1..L /\ \A i \in 1..L : Now[i] \in Members
  BY NowIs, LenProperties, ElementOfSeq
<1> DEFINE N == p * PageSize
<1>3. N \in Int /\ N = K + PageSize /\ K <= L
  BY <1>1
<1>4. HasNext(p) <=> L > N
  BY DEF HasNext
<1>5. Page(p) = SubSeq(Now, K + 1, last)
  BY DEF Page
<1> HIDE DEF K, L, N
<1>6. last = IF N <= L THEN N ELSE L
  BY <1>2, <1>3, LesserOfTwo DEF N
<1> HIDE DEF last
<1>7. \A i \in K + 1..last : i \in 1..L
  BY <1>1, <1>2, <1>3, <1>6
<1>8. \A i \in K + 1..last : Now[i] \in Members
  BY <1>2, <1>7
<1>9. last \in Int /\ K + 1 \in Int /\ K + 1 <= last + 1
  BY <1>1, <1>2, <1>3, <1>6
<1>10. Len(Page(p)) = IF K + 1 <= last THEN last - (K + 1) + 1 ELSE 0
  BY <1>5, <1>8, <1>9, SubSeqProperties
<1>11. K + Len(Page(p)) = last
  BY <1>1, <1>9, <1>10
<1>12. HasNext(p) => K + Len(Page(p)) = N /\ N <= L
  BY <1>2, <1>3, <1>4, <1>6, <1>11
<1>13. ~HasNext(p) => K + Len(Page(p)) = L
  BY <1>2, <1>3, <1>4, <1>6, <1>11
<1> QED
  BY <1>12, <1>13 DEF K, L, N
-----------------------------------------------------------------------------
(* Nothing is stored before the first read. *)
LEMMA InitIInv == Init => IInv
<1> SUFFICES ASSUME Init PROVE IInv
  OBVIOUS
<1>1. \A d \in Sources : 1 \in Versions(d)
  <2>1. \A d \in Docs : Len(Content[d]) \in Nat /\ Len(Content[d]) >= 1
    BY FplAssumption, EmptySeq, LenProperties
  <2>2. Len(Standings) \in Nat /\ Len(Standings) >= 1
    BY FplAssumption, EmptySeq, LenProperties
  <2> QED
    BY <2>1, <2>2 DEF Sources, Versions
<1>2. TypeOK
  BY <1>1, FplAssumption DEF Init, TypeOK
<1>3. \A r \in Readers : reader[r] = Idle
  BY DEF Init
<1>4. ValidatorsHold
  BY DEF Init, ValidatorsHold
<1> QED
  BY <1>2, <1>3, <1>4 DEF IInv, ReaderHolds, PagesAddUp, Doing, Init, PruneIsTruthful

(* Where a reader that asks for documents is. *)
LEMMA DocIs ==
  ASSUME TypeOK, NEW r \in Readers, Reading(r)
  PROVE  /\ reader[r] \in Reader /\ reader[r].step \in 1..3
         /\ Doc(r) \in Docs
         /\ reader[r].op # "league"
<1>1. reader[r] \in Reader /\ reader[r].op \in {"core", "live"}
  BY DEF TypeOK, Reading, Doing
<1>2. CASE reader[r].op = "core"
  <2>1. Documents["core"] = <<"bootstrap", "fixtures", "notes">>
    BY DEF Documents
  <2>2. reader[r].step \in 1..3
    BY <1>1, <1>2, <2>1 DEF Reading, Reader
  <2> QED
    BY <1>1, <1>2, <2>1, <2>2 DEF Doc, Docs
<1>3. CASE reader[r].op = "live"
  <2>1. Documents["live"] = <<"live">>
    BY DEF Documents
  <2>2. reader[r].step = 1
    BY <1>1, <1>3, <2>1 DEF Reading, Reader
  <2> QED
    BY <1>1, <1>3, <2>1, <2>2 DEF Doc, Docs
<1> QED
  BY <1>1, <1>2, <1>3

(* A success closes the breaker's count and leaves the rest alone. *)
LEMMA FreshIs ==
  ASSUME NEW state \in Reader
  PROVE  /\ Fresh(state) \in Reader /\ Fresh(state).failed = 0 /\ Fresh(state).tries = 0
         /\ Fresh(state).op = state.op /\ Fresh(state).kept = state.kept /\ Fresh(state).lost = state.lost
         /\ Fresh(state).step = state.step
         /\ Fresh(state).got = state.got /\ Fresh(state).page = state.page
         /\ Fresh(state).more = state.more /\ Fresh(state).since = state.since
<1>1. 0 \in 0..MaxAttempts - 1 /\ 0 \in 0..Threshold - 1
  BY FplAssumption, AttemptsAssumption
<1> QED
  BY <1>1 DEF Fresh, Reader

(* What a reader becomes, and what the others stay. *)
LEMMA BecomeIs ==
  ASSUME TypeOK, NEW r \in Readers, NEW state \in Reader \cup {Idle}, Become(r, state)
  PROVE  /\ reader' \in [Readers -> Reader \cup {Idle}] /\ reader'[r] = state
         /\ \A q \in Readers \ {r} : reader'[q] = reader[q]
  BY DEF TypeOK, Become

(* A reader as it begins. *)
LEMMA BlankIs ==
  ASSUME TypeOK, NEW op \in {"core", "live", "league"}
  PROVE  /\ Blank(op) \in Reader /\ Blank(op).op = op
         /\ Blank(op).failed = Blank(op).tries /\ \A d \in Docs : Blank(op).kept[d] = 0
         /\ Blank(op).got = << >> /\ Blank(op).page = 1 /\ Blank(op).more = TRUE
         /\ Blank(op).since = upstream["league"]
<1>1. 0 \in 0..MaxAttempts - 1 /\ 0 \in 0..Threshold - 1
  BY FplAssumption, AttemptsAssumption
<1>2. upstream["league"] \in Nat
  BY NowIs
<1>3. << >> \in Seq(Members)
  OBVIOUS
<1> QED
  BY <1>1, <1>2, <1>3 DEF Blank, Reader

(* A reader after a failed attempt that was not its last. *)
LEMMA FailedIs ==
  ASSUME NEW r \in Readers, reader[r] \in Reader, reader[r].failed = reader[r].tries, ~Exhausted(r),
         NEW state, state = [reader[r] EXCEPT !.tries = @ + 1, !.failed = @ + 1]
  PROVE  /\ state \in Reader /\ state.failed = state.tries
         /\ state.op = reader[r].op /\ state.kept = reader[r].kept
         /\ state.got = reader[r].got /\ state.page = reader[r].page
         /\ state.more = reader[r].more /\ state.since = reader[r].since
<1>1. reader[r].tries + 1 \in 0..MaxAttempts - 1 /\ reader[r].failed + 1 \in 0..Threshold - 1
  <2>1. PICK n \in 0..MaxAttempts - 1 : n = reader[r].tries /\ n = reader[r].failed
    BY DEF Reader
  <2>2. MaxAttempts \in Nat /\ Threshold \in Nat /\ MaxAttempts < Threshold /\ ~(n + 1 >= MaxAttempts)
    BY <2>1, FplAssumption, AttemptsAssumption DEF Exhausted
  <2>3. n + 1 \in 0..MaxAttempts - 1 /\ n + 1 \in 0..Threshold - 1
    BY <2>1, <2>2
  <2> QED
    BY <2>1, <2>3
<1> QED
  BY <1>1 DEF Reader

(* A reader after an answer of "not modified". *)
LEMMA NotModifiedIs ==
  ASSUME TypeOK, NEW r \in Readers, NotModified(r),
         NEW state, state = [Fresh(reader[r]) EXCEPT !.step = @ + 1]
  PROVE  /\ state \in Reader /\ state.failed = state.tries
         /\ state.op # "league" /\ state.kept = reader[r].kept
<1>1. reader[r] \in Reader /\ reader[r].step \in 1..3 /\ reader[r].op # "league"
  BY DocIs DEF NotModified
<1>2. PICK fresh : fresh = Fresh(reader[r])
  OBVIOUS
<1>3. fresh \in Reader /\ fresh.step \in 1..3 /\ fresh.failed = fresh.tries
      /\ fresh.op # "league" /\ fresh.kept = reader[r].kept
  BY <1>1, <1>2, FreshIs
<1>4. state = [fresh EXCEPT !.step = fresh.step + 1]
  BY <1>2
<1> QED
  BY <1>3, <1>4, SMTT(30) DEF Reader

(* A reader after a document that has changed. *)
LEMMA ModifiedIs ==
  ASSUME TypeOK, NEW r \in Readers, Modified(r),
         NEW state, state = [Fresh(reader[r]) EXCEPT
           !.step = @ + 1, !.kept[Doc(r)] = upstream[Doc(r)],
           !.lost[Doc(r)] = IF Doc(r) = "bootstrap" THEN {} ELSE Listed(Doc(r)) \ Known(r)]
  PROVE  /\ state \in Reader /\ state.failed = state.tries
         /\ state.op # "league"
         /\ \A d \in Docs : state.kept[d] = reader[r].kept[d] \/ state.kept[d] \in Versions(d)
<1>1. reader[r] \in Reader /\ reader[r].step \in 1..3 /\ reader[r].op # "league" /\ Doc(r) \in Docs
  BY DocIs DEF Modified
<1>2. PICK fresh : fresh = Fresh(reader[r])
  OBVIOUS
<1>3. fresh \in Reader /\ fresh.step \in 1..3 /\ fresh.failed = fresh.tries
      /\ fresh.op # "league" /\ fresh.kept = reader[r].kept
  BY <1>1, <1>2, FreshIs
<1>4. PICK d \in Docs : d = Doc(r)
  BY <1>1
<1>5. upstream[d] \in Versions(d) /\ upstream[d] \in Nat
  <2>1. Len(Content[d]) \in Nat
    BY FplAssumption, LenProperties
  <2>2. d # "league" /\ d \in Sources
    BY DEF Sources, Docs
  <2>3. upstream[d] \in Versions(d)
    BY <2>2 DEF TypeOK
  <2>4. upstream[d] \in 1..Len(Content[d])
    BY <2>2, <2>3 DEF Versions
  <2> QED
    BY <2>1, <2>3, <2>4
<1>6. PICK lost : lost = IF d = "bootstrap" THEN {} ELSE Listed(d) \ Known(r)
  OBVIOUS
<1>7. lost \in SUBSET Items
  <2>1. Content[d] \in Seq(SUBSET Items) /\ upstream[d] \in 1..Len(Content[d])
    BY <1>5, FplAssumption DEF Versions, Docs
  <2>2. Listed(d) \in SUBSET Items
    BY <2>1, ElementOfSeq DEF Listed
  <2> QED
    BY <1>6, <2>2
<1>8. PICK kepts : kepts = [fresh.kept EXCEPT ![d] = upstream[d]]
  OBVIOUS
<1>9. PICK losts : losts = [fresh.lost EXCEPT ![d] = lost]
  OBVIOUS
<1>10. /\ kepts \in [Docs -> Nat] /\ losts \in [Docs -> SUBSET Items]
       /\ \A e \in Docs : kepts[e] = reader[r].kept[e] \/ kepts[e] \in Versions(e)
  BY <1>3, <1>4, <1>5, <1>7, <1>8, <1>9 DEF Reader
<1>11. state = [fresh EXCEPT !.step = fresh.step + 1, !.kept = kepts, !.lost = losts]
  BY <1>2, <1>4, <1>6, <1>8, <1>9
<1>12. state \in Reader /\ state.failed = state.tries /\ state.op = fresh.op /\ state.kept = kepts
  <2>1. PICK n \in 1..4 : n = fresh.step + 1
    BY <1>3
  <2>2. state = [fresh EXCEPT !.step = n, !.kept = kepts, !.lost = losts]
    BY <1>11, <2>1
  <2>3. kepts \in [Docs -> Nat] /\ losts \in [Docs -> SUBSET Items]
    BY <1>10
  <2> QED
    BY <1>3, <2>2, <2>3 DEF Reader
<1> QED
  BY <1>3, <1>10, <1>12

(* A reader after one more page of standings. *)
LEMMA PageReadIs ==
  ASSUME TypeOK, NEW r \in Readers, ReadPage(r), Page(reader[r].page) \in Seq(Members),
         NEW state, state = [Fresh(reader[r]) EXCEPT
           !.got = @ \o Page(reader[r].page), !.more = HasNext(reader[r].page), !.page = @ + 1]
  PROVE  /\ state \in Reader /\ state.failed = state.tries
         /\ state.op = "league" /\ state.kept = reader[r].kept
         /\ state.got = reader[r].got \o Page(reader[r].page)
         /\ state.more = HasNext(reader[r].page)
         /\ state.page = reader[r].page + 1 /\ state.since = reader[r].since
<1>1. reader[r] \in Reader /\ reader[r].op = "league"
  BY DEF ReadPage, Doing, TypeOK
<1>2. PICK fresh : fresh = Fresh(reader[r])
  OBVIOUS
<1>3. /\ fresh \in Reader /\ fresh.failed = fresh.tries /\ fresh.op = "league"
      /\ fresh.kept = reader[r].kept /\ fresh.got = reader[r].got /\ fresh.page = reader[r].page
      /\ fresh.since = reader[r].since
  BY <1>1, <1>2, FreshIs
<1>4. PICK got : got = reader[r].got \o Page(reader[r].page)
  OBVIOUS
<1>5. got \in Seq(Members)
  BY <1>1, <1>4, ConcatProperties DEF Reader
<1>6. PICK more \in BOOLEAN : more = HasNext(reader[r].page)
  <2>1. HasNext(reader[r].page) \in BOOLEAN
    <3>1. PICK l \in Nat : l = Len(Now)
      BY NowIs, LenProperties
    <3>2. PICK n \in Nat : n = reader[r].page * PageSize
      <4>1. reader[r].page \in Nat /\ PageSize \in Nat
        BY <1>1, FplAssumption DEF Reader
      <4> QED
        BY <4>1
    <3>3. (l > n) \in BOOLEAN
      OBVIOUS
    <3> QED
      BY <3>1, <3>2, <3>3, Zenon DEF HasNext
  <2> QED
    BY <2>1
<1>7. PICK page \in Nat : page = reader[r].page + 1
  BY <1>1 DEF Reader
<1>8. state = [fresh EXCEPT !.got = got, !.more = more, !.page = page]
  BY <1>2, <1>3, <1>4, <1>6, <1>7
<1>9. /\ state \in Reader /\ state.failed = fresh.failed /\ state.tries = fresh.tries
      /\ state.op = fresh.op /\ state.kept = fresh.kept /\ state.since = fresh.since
      /\ state.got = got /\ state.more = more /\ state.page = page
  BY <1>3, <1>5, <1>8 DEF Reader
<1> QED
  BY <1>3, <1>4, <1>6, <1>7, <1>9
-----------------------------------------------------------------------------
(* A document that is published is one more of its versions. *)
LEMMA PublishIs ==
  ASSUME TypeOK, NEW d \in Sources, Publish(d)
  PROVE  /\ DOMAIN upstream' = Sources /\ \A e \in Sources : upstream'[e] \in Versions(e)
         /\ \A e \in Sources : upstream'[e] = IF e = d THEN upstream[d] + 1 ELSE upstream[e]
  BY DEF Publish, TypeOK

(* Every action leaves every variable in its type. *)
LEMMA NextType ==
  ASSUME TypeOK, ReaderHolds, PagesAddUp, [Next]_vars
  PROVE  TypeOK'
<1> USE DEF TypeOK
<1>1. CASE UNCHANGED vars
  BY <1>1 DEF vars
<1>2. ASSUME NEW d \in Sources, Publish(d) PROVE TypeOK'
  BY <1>2, PublishIs DEF Publish
<1>3. ASSUME NEW r \in Readers, NEW op \in {"core", "live", "league"}, Start(r, op) PROVE TypeOK'
  <2>1. reader' \in [Readers -> Reader \cup {Idle}]
    BY <1>3, BlankIs, BecomeIs DEF Start
  <2>2. reads' \in 0..MaxReads
    BY <1>3, FplAssumption DEF Start
  <2> QED
    BY <1>3, <2>1, <2>2 DEF Start
<1>4. ASSUME failures < MaxFailures, failures' = failures + 1 PROVE failures' \in 0..MaxFailures
  BY <1>4, FplAssumption
<1>5. ASSUME NEW r \in Readers, AttemptFails(r) PROVE TypeOK'
  <2>1. PICK state : state = [reader[r] EXCEPT !.tries = @ + 1, !.failed = @ + 1]
    OBVIOUS
  <2>2. Become(r, Idle) \/ (Become(r, state) /\ ~Exhausted(r))
    BY <1>5, <2>1 DEF AttemptFails, Become
  <2>3. reader[r] \in Reader /\ reader[r].failed = reader[r].tries
    BY <1>5 DEF AttemptFails, ReaderHolds
  <2>4. reader' \in [Readers -> Reader \cup {Idle}]
    BY <2>1, <2>2, <2>3, BecomeIs, FailedIs
  <2> QED
    BY <1>4, <1>5, <2>4 DEF AttemptFails
<1>6. ASSUME NEW r \in Readers, Abandon(r) PROVE TypeOK'
  BY <1>4, <1>6, BecomeIs DEF Abandon
<1>7. ASSUME NEW r \in Readers, NotModified(r) PROVE TypeOK'
  <2>1. PICK state : state = [Fresh(reader[r]) EXCEPT !.step = @ + 1]
    OBVIOUS
  <2>2. Become(r, state)
    BY <1>7, <2>1 DEF NotModified
  <2>3. reader' \in [Readers -> Reader \cup {Idle}]
    BY <1>7, <2>1, <2>2, NotModifiedIs, BecomeIs
  <2> QED
    BY <1>7, <2>3 DEF NotModified
<1>8. ASSUME NEW r \in Readers, Modified(r) PROVE TypeOK'
  <2>1. PICK state : state = [Fresh(reader[r]) EXCEPT
           !.step = @ + 1, !.kept[Doc(r)] = upstream[Doc(r)],
           !.lost[Doc(r)] = IF Doc(r) = "bootstrap" THEN {} ELSE Listed(Doc(r)) \ Known(r)]
    OBVIOUS
  <2>2. Become(r, state)
    BY <1>8, <2>1 DEF Modified
  <2>3. reader' \in [Readers -> Reader \cup {Idle}]
    BY <1>8, <2>1, <2>2, ModifiedIs, BecomeIs
  <2> QED
    BY <1>8, <2>3 DEF Modified
<1>9. ASSUME NEW r \in Readers, CommitDocuments(r) PROVE TypeOK'
  <2>1. reader[r] \in Reader
    BY <1>9 DEF CommitDocuments, Doing
  <2>2. PICK kept \in [Docs -> Nat] : kept = reader[r].kept
    BY <2>1 DEF Reader
  <2>3. PICK lost \in [Docs -> SUBSET Items] : lost = reader[r].lost
    BY <2>1 DEF Reader
  <2>4. /\ etag' = [d \in Docs |-> IF kept[d] # 0 THEN kept[d] ELSE etag[d]]
        /\ dropped' = [d \in Docs |-> IF kept[d] # 0 THEN lost[d] ELSE dropped[d]]
        /\ rows' = [d \in Docs |-> [i \in Items |->
             IF kept[d] # 0 /\ i \in Content[d][kept[d]] \ lost[d] THEN kept[d] ELSE rows[d][i]]]
    BY <1>9, <2>2, <2>3 DEF CommitDocuments
  <2>5. etag' \in [Docs -> Nat] /\ dropped' \in [Docs -> SUBSET Items]
    BY <2>2, <2>3, <2>4
  <2>6. rows' \in [Docs -> [Items -> Nat]]
    BY <2>2, <2>4
  <2>7. reader' \in [Readers -> Reader \cup {Idle}]
    BY <1>9, BecomeIs DEF CommitDocuments
  <2> QED
    BY <1>9, <2>5, <2>6, <2>7 DEF CommitDocuments
<1>10. ASSUME NEW r \in Readers, ReadPage(r) PROVE TypeOK'
  <2>0. Page(reader[r].page) \in Seq(Members)
    <3>1. reader[r].page \in Nat /\ reader[r].page >= 1
      BY <1>10 DEF ReadPage, Doing, PagesAddUp, Reader
    <3> QED
      BY <3>1, PageTyped
  <2>1. PICK state : state = [Fresh(reader[r]) EXCEPT
           !.got = @ \o Page(reader[r].page), !.more = HasNext(reader[r].page), !.page = @ + 1]
    OBVIOUS
  <2>2. Become(r, state)
    BY <1>10, <2>1 DEF ReadPage
  <2>3. reader' \in [Readers -> Reader \cup {Idle}]
    BY <1>10, <2>0, <2>1, <2>2, PageReadIs, BecomeIs
  <2> QED
    BY <1>10, <2>3 DEF ReadPage
<1>11. ASSUME NEW r \in Readers, StandingsRefused(r) PROVE TypeOK'
  BY <1>11, BecomeIs DEF StandingsRefused
<1>12. ASSUME NEW r \in Readers, StoreStandings(r) PROVE TypeOK'
  <2>1. reader[r] \in Reader
    BY <1>12 DEF StoreStandings, Doing
  <2>2. ToSet(reader[r].got) \subseteq Members
    <3>1. reader[r].got \in Seq(Members)
      BY <2>1 DEF Reader
    <3> QED
      BY <3>1, LenProperties, ElementOfSeq DEF ToSet
  <2>3. members' \subseteq Members /\ wronged' \subseteq Members
    BY <1>12, <2>2 DEF StoreStandings
  <2>4. reader' \in [Readers -> Reader \cup {Idle}]
    BY <1>12, BecomeIs DEF StoreStandings
  <2> QED
    BY <1>12, <2>3, <2>4 DEF StoreStandings
<1> QED
  BY <1>1, <1>2, <1>3, <1>5, <1>6, <1>7, <1>8, <1>9, <1>10, <1>11, <1>12 DEF Next
-----------------------------------------------------------------------------
(* What a reader asks for next leaves it a reader of the same league, at    *)
(* the same place or one page further.                                      *)
SamePlace(r) ==
  /\ reader'[r].got = reader[r].got /\ reader'[r].page = reader[r].page
  /\ reader'[r].more = reader[r].more /\ reader'[r].since = reader[r].since
NextPlace(r) ==
  /\ MorePages(r)
  /\ reader'[r].got = reader[r].got \o Page(reader[r].page)
  /\ reader'[r].more = HasNext(reader[r].page)
  /\ reader'[r].page = reader[r].page + 1 /\ reader'[r].since = reader[r].since
GoesOn(r) ==
  /\ reader[r] # Idle
  /\ reader'[r].failed = reader'[r].tries
  /\ \A d \in Docs : reader'[r].kept[d] = reader[r].kept[d] \/ reader'[r].kept[d] \in Versions(d)
  /\ reader'[r].op = "league" => reader[r].op = "league" /\ (SamePlace(r) \/ NextPlace(r))
  /\ UNCHANGED upstream

(* What one step makes of one reader: it stays as it was, it ends, it       *)
(* begins, or it goes on. *)
LEMMA ReaderLife ==
  ASSUME TypeOK, ReaderHolds, PagesAddUp, [Next]_vars, NEW r \in Readers
  PROVE  \/ reader'[r] = reader[r]
         \/ reader'[r] = Idle
         \/ (\E op \in {"core", "live", "league"} : reader'[r] = Blank(op)) /\ UNCHANGED upstream
         \/ GoesOn(r)
<1>1. ASSUME UNCHANGED reader PROVE reader'[r] = reader[r]
  BY <1>1
<1>2. ASSUME NEW q \in Readers, NEW state, Become(q, state), q # r PROVE reader'[r] = reader[r]
  BY <1>2 DEF Become, TypeOK
<1>3. ASSUME NEW state, Become(r, state) PROVE reader'[r] = state
  BY <1>3 DEF Become, TypeOK
<1>4. CASE UNCHANGED vars \/ \E d \in Sources : Publish(d)
  BY <1>1, <1>4 DEF vars, Publish
<1>5. ASSUME NEW q \in Readers, q # r,
             \/ \E op \in {"core", "live", "league"} : Start(q, op)
             \/ AttemptFails(q) \/ Abandon(q)
             \/ NotModified(q) \/ Modified(q) \/ CommitDocuments(q)
             \/ ReadPage(q) \/ StandingsRefused(q) \/ StoreStandings(q)
      PROVE  reader'[r] = reader[r]
  <2>1. \E state : Become(q, state)
    BY <1>5, Zenon DEF Start, AttemptFails, Abandon, NotModified, Modified, CommitDocuments, ReadPage,
                       StandingsRefused, StoreStandings
  <2> QED
    BY <1>2, <1>5, <2>1
<1>6. ASSUME NEW op \in {"core", "live", "league"}, Start(r, op)
      PROVE  reader'[r] = Blank(op) /\ UNCHANGED upstream
  BY <1>3, <1>6 DEF Start
<1>7. ASSUME Abandon(r) \/ CommitDocuments(r) \/ StandingsRefused(r) \/ StoreStandings(r)
      PROVE  reader'[r] = Idle
  <2>1. Become(r, Idle)
    BY <1>7 DEF Abandon, CommitDocuments, StandingsRefused, StoreStandings
  <2> QED
    BY <1>3, <2>1
<1>8. CASE AttemptFails(r)
  <2>1. PICK state : state = [reader[r] EXCEPT !.tries = @ + 1, !.failed = @ + 1]
    OBVIOUS
  <2>2. Become(r, Idle) \/ (Become(r, state) /\ ~Exhausted(r))
    BY <1>8, <2>1 DEF AttemptFails, Become
  <2>3. reader[r] \in Reader /\ reader[r].failed = reader[r].tries /\ UNCHANGED upstream /\ reader[r] # Idle
    BY <1>8 DEF AttemptFails, ReaderHolds, TypeOK
  <2>4. CASE Become(r, state) /\ ~Exhausted(r)
    <3>1. reader'[r] = state
      BY <1>3, <2>4
    <3>2. /\ state.failed = state.tries /\ state.op = reader[r].op /\ state.kept = reader[r].kept
          /\ state.got = reader[r].got /\ state.page = reader[r].page
          /\ state.more = reader[r].more /\ state.since = reader[r].since
      BY <2>1, <2>3, <2>4, FailedIs
    <3>3. GoesOn(r)
      BY <2>3, <3>1, <3>2 DEF GoesOn, SamePlace
    <3> QED
      BY <3>3
  <2> QED
    BY <1>3, <2>2, <2>4
<1>9. CASE NotModified(r)
  <2>1. PICK state : state = [Fresh(reader[r]) EXCEPT !.step = @ + 1]
    OBVIOUS
  <2>2. reader'[r] = state
    BY <1>3, <1>9, <2>1 DEF NotModified
  <2>3. GoesOn(r)
    BY <1>9, <2>1, <2>2, NotModifiedIs, ZenonT(30) DEF GoesOn, NotModified, Reading, Doing
  <2> QED
    BY <2>3
<1>10. CASE Modified(r)
  <2>1. PICK state : state = [Fresh(reader[r]) EXCEPT
           !.step = @ + 1, !.kept[Doc(r)] = upstream[Doc(r)],
           !.lost[Doc(r)] = IF Doc(r) = "bootstrap" THEN {} ELSE Listed(Doc(r)) \ Known(r)]
    OBVIOUS
  <2>2. Become(r, state) /\ UNCHANGED upstream /\ reader[r] # Idle
    BY <1>10, <2>1 DEF Modified, Reading, Doing
  <2>3. reader'[r] = state
    BY <1>3, <2>2
  <2>4. /\ state.failed = state.tries /\ state.op # "league"
        /\ \A d \in Docs : state.kept[d] = reader[r].kept[d] \/ state.kept[d] \in Versions(d)
    BY <1>10, <2>1, ModifiedIs
  <2>5. GoesOn(r)
    BY <2>2, <2>3, <2>4 DEF GoesOn
  <2> QED
    BY <2>5
<1>11. CASE ReadPage(r)
  <2>1. PICK state : state = [Fresh(reader[r]) EXCEPT
           !.got = @ \o Page(reader[r].page), !.more = HasNext(reader[r].page), !.page = @ + 1]
    OBVIOUS
  <2>2. Become(r, state) /\ UNCHANGED upstream /\ reader[r] # Idle /\ reader[r].op = "league" /\ MorePages(r)
    BY <1>11, <2>1 DEF ReadPage, Doing
  <2>3. reader'[r] = state
    BY <1>3, <2>2
  <2>4. Page(reader[r].page) \in Seq(Members)
    <3>1. reader[r].page \in Nat /\ reader[r].page >= 1
      BY <1>11 DEF ReadPage, Doing, PagesAddUp, Reader, TypeOK
    <3> QED
      BY <3>1, PageTyped
  <2>5. /\ state.failed = state.tries /\ state.kept = reader[r].kept
        /\ state.got = reader[r].got \o Page(reader[r].page)
        /\ state.more = HasNext(reader[r].page)
        /\ state.page = reader[r].page + 1 /\ state.since = reader[r].since
    BY <1>11, <2>1, <2>4, PageReadIs
  <2>6. GoesOn(r)
    BY <2>2, <2>3, <2>5 DEF GoesOn, NextPlace
  <2> QED
    BY <2>6
<1> QED
  BY <1>4, <1>5, <1>6, <1>7, <1>8, <1>9, <1>10, <1>11 DEF Next

(* The breaker of a reader has counted the failures of its fetch, and what  *)
(* it is to store it has read. *)
LEMMA NextReaders ==
  ASSUME TypeOK, ReaderHolds, PagesAddUp, [Next]_vars
  PROVE  ReaderHolds'
<1>1. SUFFICES ASSUME NEW r \in Readers, reader'[r] # Idle
               PROVE  /\ \A d \in Docs : reader'[r].kept[d] \in Versions(d) \cup {0}
                      /\ reader'[r].failed = reader'[r].tries
  BY DEF ReaderHolds
<1>2. CASE reader'[r] = reader[r]
  BY <1>1, <1>2 DEF ReaderHolds
<1>3. ASSUME NEW op \in {"core", "live", "league"}, reader'[r] = Blank(op)
      PROVE  /\ \A d \in Docs : reader'[r].kept[d] \in Versions(d) \cup {0}
             /\ reader'[r].failed = reader'[r].tries
  BY <1>3, BlankIs
<1>4. CASE GoesOn(r)
  BY <1>4 DEF GoesOn, ReaderHolds
<1> QED
  BY <1>1, <1>2, <1>3, <1>4, ReaderLife

(* Validators and rows come to the store together, in the transaction of    *)
(* one reader. *)
LEMMA NextValidators ==
  ASSUME TypeOK, ReaderHolds, ValidatorsHold, [Next]_vars
  PROVE  ValidatorsHold'
<1>1. ASSUME UNCHANGED <<etag, rows, dropped>> PROVE ValidatorsHold'
  BY <1>1 DEF ValidatorsHold
<1>2. ASSUME NEW r \in Readers, CommitDocuments(r) PROVE ValidatorsHold'
  <2>1. reader[r] \in Reader
    BY <1>2 DEF CommitDocuments, Doing, TypeOK
  <2>2. PICK kept \in [Docs -> Nat] : kept = reader[r].kept
    BY <2>1 DEF Reader
  <2>3. PICK lost : lost = reader[r].lost
    OBVIOUS
  <2>4. /\ etag' = [d \in Docs |-> IF kept[d] # 0 THEN kept[d] ELSE etag[d]]
        /\ dropped' = [d \in Docs |-> IF kept[d] # 0 THEN lost[d] ELSE dropped[d]]
        /\ rows' = [d \in Docs |-> [i \in Items |->
             IF kept[d] # 0 /\ i \in Content[d][kept[d]] \ lost[d] THEN kept[d] ELSE rows[d][i]]]
    BY <1>2, <2>2, <2>3 DEF CommitDocuments
  <2>5. SUFFICES ASSUME NEW d \in Docs
                 PROVE  /\ etag'[d] \in Versions(d) \cup {0}
                        /\ etag'[d] # 0 =>
                             \A i \in Content[d][etag'[d]] \ dropped'[d] : rows'[d][i] = etag'[d]
    BY DEF ValidatorsHold
  <2>6. kept[d] \in Versions(d) \cup {0}
    BY <1>2, <2>2 DEF ReaderHolds, CommitDocuments, Doing
  <2>7. CASE kept[d] = 0
    <3>1. etag'[d] = etag[d] /\ dropped'[d] = dropped[d] /\ \A i \in Items : rows'[d][i] = rows[d][i]
      BY <2>4, <2>7
    <3>2. etag[d] # 0 => Content[d][etag[d]] \subseteq Items
      <4>1. etag[d] # 0 => etag[d] \in 1..Len(Content[d])
        BY DEF ValidatorsHold, Versions, Docs
      <4> QED
        BY <4>1, FplAssumption, ElementOfSeq
    <3> QED
      BY <3>1, <3>2 DEF ValidatorsHold
  <2>8. CASE kept[d] # 0
    <3>1. Content[d][kept[d]] \subseteq Items
      <4>1. kept[d] \in 1..Len(Content[d])
        BY <2>6, <2>8 DEF Versions, Docs
      <4> QED
        BY <4>1, FplAssumption, ElementOfSeq
    <3>2. /\ etag'[d] = kept[d] /\ dropped'[d] = lost[d]
          /\ \A i \in Items : i \in Content[d][kept[d]] \ lost[d] => rows'[d][i] = kept[d]
      BY <2>4, <2>8
    <3> QED
      BY <2>6, <3>1, <3>2
  <2> QED
    BY <2>7, <2>8
<1>3. CASE UNCHANGED vars \/ \E d \in Sources : Publish(d)
  BY <1>1, <1>3 DEF vars, Publish
<1>4. ASSUME NEW r \in Readers,
             \/ \E op \in {"core", "live", "league"} : Start(r, op)
             \/ AttemptFails(r) \/ Abandon(r) \/ NotModified(r) \/ Modified(r)
             \/ ReadPage(r) \/ StandingsRefused(r) \/ StoreStandings(r)
      PROVE  UNCHANGED <<etag, rows, dropped>>
  BY <1>4 DEF Start, AttemptFails, Abandon, NotModified, Modified, ReadPage, StandingsRefused, StoreStandings
<1> QED
  BY <1>1, <1>2, <1>3, <1>4 DEF Next

(* The reader is where it was, and the league may have gone on by one table:*)
(* if still nobody has left, it has everybody it had. *)
LEMMA PlaceKept ==
  ASSUME TypeOK, PagesAddUp, NEW r \in Readers, Doing(r, {"league"}), SamePlace(r),
         \/ UNCHANGED upstream
         \/ \E d \in Sources : Publish(d)
  PROVE  /\ reader'[r].since \in 1..upstream'["league"] /\ reader'[r].page >= 1
         /\ ~Left(r)' =>
              /\ ToSet(Standings[reader'[r].since]) \subseteq ToSet(Now')
              /\ reader'[r].more => /\ Len(reader'[r].got) = (reader'[r].page - 1) * PageSize
                                    /\ Len(reader'[r].got) <= Len(Now')
                                    /\ ToSet(reader'[r].got) \subseteq ToSet(Now')
              /\ ~reader'[r].more /\ ~Repeats(reader'[r].got) =>
                   ToSet(Standings[reader'[r].since]) \subseteq ToSet(reader'[r].got)
<1> DEFINE v == upstream["league"]
           w == upstream'["league"]
<1>1. /\ reader[r].since \in 1..v /\ reader[r].page >= 1
      /\ ~Left(r) =>
           /\ ToSet(Standings[reader[r].since]) \subseteq ToSet(Now)
           /\ reader[r].more => /\ Len(reader[r].got) = (reader[r].page - 1) * PageSize
                                /\ Len(reader[r].got) <= Len(Now)
                                /\ ToSet(reader[r].got) \subseteq ToSet(Now)
           /\ ~reader[r].more /\ ~Repeats(reader[r].got) =>
                ToSet(Standings[reader[r].since]) \subseteq ToSet(reader[r].got)
  BY DEF PagesAddUp
<1>2. v \in Nat /\ (w = v \/ (w = v + 1 /\ w \in 1..Len(Standings)))
  <2>1. CASE UNCHANGED upstream
    BY <2>1, NowIs
  <2>2. ASSUME NEW d \in Sources, Publish(d) PROVE w = v \/ (w = v + 1 /\ w \in 1..Len(Standings))
    BY <2>2, PublishIs DEF Sources, Versions
  <2> QED
    BY <2>1, <2>2, NowIs
<1>3. ~Left(r)' => ~Left(r) /\ ToSet(Now) \subseteq ToSet(Now')
  <2>1. CASE w = v
    BY <2>1 DEF Left, Now, SamePlace
  <2>2. CASE w = v + 1
    <3>1. ~Left(r)' => \A u \in reader[r].since..v : ToSet(Standings[u]) \subseteq ToSet(Standings[u + 1])
      BY <1>2, <2>2 DEF Left, SamePlace
    <3>2. v \in reader[r].since..v /\ \A u \in reader[r].since..v - 1 : u \in reader[r].since..v
      BY <1>1, <1>2
    <3> QED
      BY <2>2, <3>1, <3>2 DEF Left, Now
  <2> QED
    BY <1>2, <2>1, <2>2
<1>4. ToSet(Now) \subseteq ToSet(Now') => Len(Now) <= Len(Now')
  <2>1. Now \in Seq(Members) /\ IsInjective(Now) /\ Now' = Standings[w] /\ Now = Standings[v]
    BY NowIs DEF Now
  <2>2. w \in 1..Len(Standings)
    BY <1>2, NowIs
  <2>3. Standings[w] \in Seq(Members) /\ IsInjective(Standings[w])
    BY <2>2, NowIs
  <2> QED
    BY <2>1, <2>3, TablesCompared
<1>5. Len(Now) \in Nat /\ Len(Now') \in Nat
  <2>1. w \in 1..Len(Standings)
    BY <1>2, NowIs
  <2>2. Now' \in Seq(Members)
    BY <2>1, NowIs DEF Now
  <2> QED
    BY <2>2, NowIs, LenProperties
<1>6. Len(reader[r].got) \in Nat
  BY LenProperties DEF TypeOK, Reader, Doing
<1>7. reader'[r].since \in 1..w
  BY <1>1, <1>2 DEF SamePlace
<1>8. ASSUME ~Left(r)'
      PROVE  /\ ToSet(Standings[reader[r].since]) \subseteq ToSet(Now')
             /\ reader[r].more => /\ Len(reader[r].got) = (reader[r].page - 1) * PageSize
                                  /\ Len(reader[r].got) <= Len(Now')
                                  /\ ToSet(reader[r].got) \subseteq ToSet(Now')
             /\ ~reader[r].more /\ ~Repeats(reader[r].got) =>
                  ToSet(Standings[reader[r].since]) \subseteq ToSet(reader[r].got)
  <2>1. ~Left(r) /\ ToSet(Now) \subseteq ToSet(Now') /\ Len(Now) <= Len(Now')
    BY <1>3, <1>4, <1>8
  <2>2. Len(reader[r].got) <= Len(Now) => Len(reader[r].got) <= Len(Now')
    BY <1>5, <1>6, <2>1
  <2> QED
    BY <1>1, <2>1, <2>2
<1> QED
  BY <1>1, <1>7, <1>8 DEF SamePlace

(* One more page.  Pages before the last are full, so what has been read is *)
(* as long as the ranks it stands for; when the last is read it is as long  *)
(* as the table, and without a name twice it is the whole table. *)
LEMMA PageAdded ==
  ASSUME TypeOK, PagesAddUp, NEW r \in Readers, Doing(r, {"league"}), NextPlace(r), UNCHANGED upstream
  PROVE  /\ reader'[r].since \in 1..upstream'["league"] /\ reader'[r].page >= 1
         /\ ~Left(r)' =>
              /\ ToSet(Standings[reader'[r].since]) \subseteq ToSet(Now')
              /\ reader'[r].more => /\ Len(reader'[r].got) = (reader'[r].page - 1) * PageSize
                                    /\ Len(reader'[r].got) <= Len(Now')
                                    /\ ToSet(reader'[r].got) \subseteq ToSet(Now')
              /\ ~reader'[r].more /\ ~Repeats(reader'[r].got) =>
                   ToSet(Standings[reader'[r].since]) \subseteq ToSet(reader'[r].got)
<1>1. PICK p \in Nat \ {0} : p = reader[r].page
  BY DEF PagesAddUp, Doing, TypeOK, Reader
<1>2. PICK got \in Seq(Members) : got = reader[r].got
  BY DEF Doing, TypeOK, Reader
<1>3. /\ reader[r].since \in 1..upstream["league"]
      /\ reader[r].more
      /\ ~Left(r) =>
           /\ ToSet(Standings[reader[r].since]) \subseteq ToSet(Now)
           /\ Len(got) = (p - 1) * PageSize /\ Len(got) <= Len(Now)
           /\ ToSet(got) \subseteq ToSet(Now)
  BY <1>1, <1>2 DEF PagesAddUp, NextPlace, MorePages
<1>4. PICK all : all = got \o Page(p)
  OBVIOUS
<1>5. /\ reader'[r].got = all /\ reader'[r].more = HasNext(p) /\ reader'[r].page = p + 1
      /\ reader'[r].since = reader[r].since /\ Now' = Now /\ upstream' = upstream
  BY <1>1, <1>2, <1>4 DEF NextPlace, Now
<1>6. Left(r)' <=> Left(r)
  BY <1>5 DEF Left
<1>7. ASSUME ~Left(r)
      PROVE  /\ HasNext(p) => /\ Len(all) = p * PageSize /\ Len(all) <= Len(Now)
                              /\ ToSet(all) \subseteq ToSet(Now)
             /\ ~HasNext(p) /\ ~Repeats(all) => ToSet(Standings[reader[r].since]) \subseteq ToSet(all)
  <2> DEFINE K == (p - 1) * PageSize
             N == p * PageSize
  <2>1. Len(got) = K /\ K <= Len(Now) /\ ToSet(got) \subseteq ToSet(Now)
    BY <1>3, <1>7
  <2>2. Page(p) \in Seq(Members) /\ ToSet(Page(p)) \subseteq ToSet(Now)
    BY PageTyped
  <2>3. /\ HasNext(p) => K + Len(Page(p)) = N /\ N <= Len(Now)
        /\ ~HasNext(p) => K + Len(Page(p)) = Len(Now)
    BY <2>1, PageIs
  <2> HIDE DEF K, N
  <2>4. all \in Seq(Members) /\ Len(all) = K + Len(Page(p))
    BY <1>4, <2>1, <2>2, ConcatProperties
  <2>5. ToSet(all) \subseteq ToSet(Now)
    BY <1>4, <2>1, <2>2, PagesTogether
  <2>6. ASSUME ~HasNext(p), ~Repeats(all) PROVE ToSet(all) = ToSet(Now)
    <3>1. IsInjective(all) /\ Len(all) = Len(Now)
      BY <2>3, <2>4, <2>6 DEF Repeats
    <3> QED
      BY <2>4, <2>5, <3>1, NowIs, TablesCompared
  <2>7. ToSet(Standings[reader[r].since]) \subseteq ToSet(Now)
    BY <1>3, <1>7
  <2>8. HasNext(p) => Len(all) = N /\ Len(all) <= Len(Now)
    BY <2>3, <2>4
  <2> QED
    BY <2>5, <2>6, <2>7, <2>8 DEF N
<1>8. (p + 1) - 1 = p /\ p + 1 >= 1
  OBVIOUS
<1> QED
  BY <1>3, <1>5, <1>6, <1>7, <1>8

(* A read of the standings goes on adding up. *)
LEMMA NextPages ==
  ASSUME TypeOK, ReaderHolds, PagesAddUp, [Next]_vars
  PROVE  PagesAddUp'
<1> DEFINE Adds(r) ==
      /\ reader[r].since \in 1..upstream["league"] /\ reader[r].page >= 1
      /\ ~Left(r) =>
           /\ ToSet(Standings[reader[r].since]) \subseteq ToSet(Now)
           /\ reader[r].more => /\ Len(reader[r].got) = (reader[r].page - 1) * PageSize
                                /\ Len(reader[r].got) <= Len(Now)
                                /\ ToSet(reader[r].got) \subseteq ToSet(Now)
           /\ ~reader[r].more /\ ~Repeats(reader[r].got) =>
                ToSet(Standings[reader[r].since]) \subseteq ToSet(reader[r].got)
<1>1. SUFFICES ASSUME NEW r \in Readers, Doing(r, {"league"})' PROVE Adds(r)'
  BY DEF PagesAddUp
<1>2. reader'[r] # Idle /\ reader'[r].op = "league"
  BY <1>1 DEF Doing
<1>3. UNCHANGED upstream \/ \E d \in Sources : Publish(d)
  BY DEF Next, vars, Start, AttemptFails, Abandon, NotModified, Modified, CommitDocuments, ReadPage,
         StandingsRefused, StoreStandings
<1>4. CASE reader'[r] = reader[r]
  <2>1. Doing(r, {"league"}) /\ SamePlace(r)
    BY <1>2, <1>4 DEF Doing, SamePlace
  <2> QED
    BY <1>3, <2>1, PlaceKept
<1>5. ASSUME NEW op \in {"core", "live", "league"}, reader'[r] = Blank(op), UNCHANGED upstream PROVE Adds(r)'
  <2>1. /\ reader'[r].got = << >> /\ reader'[r].page = 1 /\ reader'[r].more = TRUE
        /\ reader'[r].since = upstream["league"]
    BY <1>5, BlankIs
  <2>2. upstream["league"] \in Nat /\ upstream["league"] >= 1 /\ Now' = Now /\ Now = Standings[upstream["league"]]
    BY <1>5, NowIs DEF Now
  <2>3. Len(<< >>) = 0 /\ (1 - 1) * PageSize = 0 /\ Len(Now) \in Nat /\ ToSet(<< >>) = {}
    BY FplAssumption, NowIs, LenProperties DEF ToSet
  <2> QED
    BY <1>5, <2>1, <2>2, <2>3
<1>6. CASE GoesOn(r)
  <2>1. Doing(r, {"league"}) /\ UNCHANGED upstream /\ (SamePlace(r) \/ NextPlace(r))
    BY <1>2, <1>6 DEF GoesOn, Doing
  <2>2. CASE SamePlace(r)
    BY <2>1, <2>2, PlaceKept
  <2>3. CASE NextPlace(r)
    BY <2>1, <2>3, PageAdded
  <2> QED
    BY <2>1, <2>2, <2>3
<1> HIDE DEF Adds
<1> QED
  BY <1>2, <1>4, <1>5, <1>6, ReaderLife

(* Nobody is pruned who had never left: whoever was there when the read     *)
(* began, if nobody left since, has been read. *)
LEMMA NextPruned ==
  ASSUME TypeOK, PagesAddUp, PruneIsTruthful, [Next]_vars
  PROVE  PruneIsTruthful'
<1>1. ASSUME NEW r \in Readers, StoreStandings(r) PROVE wronged' = {}
  <2> DEFINE got == ToSet(reader[r].got)
             pruned == IF reader[r].more THEN {} ELSE members \ got
  <2>1. Doing(r, {"league"}) /\ ~Repeats(reader[r].got)
    BY <1>1 DEF StoreStandings
  <2>2. wronged' = wronged \cup {m \in pruned : ~Left(r) /\ m \in ToSet(Standings[reader[r].since])}
    BY <1>1 DEF StoreStandings
  <2>3. ASSUME NEW m \in pruned, ~Left(r), m \in ToSet(Standings[reader[r].since]) PROVE FALSE
    <3>1. ~reader[r].more /\ m \notin got
      BY <2>3
    <3>2. ToSet(Standings[reader[r].since]) \subseteq got
      BY <2>1, <2>3, <3>1 DEF PagesAddUp
    <3> QED
      BY <2>3, <3>1, <3>2
  <2> HIDE DEF pruned
  <2> QED
    BY <2>2, <2>3 DEF PruneIsTruthful
<1>2. CASE UNCHANGED vars \/ \E d \in Sources : Publish(d)
  BY <1>2 DEF vars, Publish, PruneIsTruthful
<1>3. ASSUME NEW r \in Readers,
             \/ \E op \in {"core", "live", "league"} : Start(r, op)
             \/ AttemptFails(r) \/ Abandon(r) \/ NotModified(r) \/ Modified(r) \/ CommitDocuments(r)
             \/ ReadPage(r) \/ StandingsRefused(r)
      PROVE  UNCHANGED wronged
  BY <1>3 DEF Start, AttemptFails, Abandon, NotModified, Modified, CommitDocuments, ReadPage, StandingsRefused
<1> QED
  BY <1>1, <1>2, <1>3 DEF Next, PruneIsTruthful
-----------------------------------------------------------------------------
(* The invariant is inductive. *)
LEMMA NextIInv == IInv /\ [Next]_vars => IInv'
  BY NextType, NextReaders, NextValidators, NextPages, NextPruned, Zenon DEF IInv

(* The invariant holds in every state of every behaviour. *)
LEMMA IInvAlways == Spec => []IInv
  BY InitIInv, NextIInv, PTL DEF Spec

(* The stores have their types, and no circuit breaker ever opens: a reader *)
(* gives up before its client has failed often enough (FplClient.fetch). *)
THEOREM IngestTypeCorrect == Spec => []TypeOK
<1>1. IInv => TypeOK
  BY DEF IInv
<1> QED
  BY <1>1, IInvAlways, PTL

(* When the API would answer "not modified", what it stands for is stored   *)
(* (_store_headers of fpl/ingest.py: validators and rows in one             *)
(* transaction), whatever fails and however readers overlap. *)
THEOREM NotModifiedLosesNothingAlways == Spec => []NotModifiedLosesNothing
<1>1. IInv => NotModifiedLosesNothing
  <2> SUFFICES ASSUME IInv, NEW d \in Docs, etag[d] = upstream[d], NEW i \in Listed(d) \ dropped[d]
               PROVE  rows[d][i] = upstream[d]
    BY DEF NotModifiedLosesNothing
  <2>1. etag[d] # 0
    BY SMTT(30) DEF IInv, TypeOK, Sources, Docs, Versions
  <2> QED
    BY <2>1 DEF IInv, ValidatorsHold, Listed
<1> QED
  BY <1>1, IInvAlways, PTL

(* Pruning a league takes nobody out who never left it, unless somebody     *)
(* left while it was being read (ingest_league reads page after page, and a *)
(* batch that repeats a member is refused). *)
THEOREM PruneIsTruthfulAlways == Spec => []PruneIsTruthful
<1>1. IInv => PruneIsTruthful
  BY DEF IInv
<1> QED
  BY <1>1, IInvAlways, PTL
=============================================================================
