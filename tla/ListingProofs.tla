---------------------------- MODULE ListingProofs ----------------------------
(***************************************************************************)
(* That list_objects lists what stays, once, and tells the right kind of   *)
(* error: for every bucket, page size and sequence of changes and faults.  *)
(*                                                                         *)
(* The idea: the continuation token splits the entries.  Those up to it    *)
(* were offered by the pages so far, so that every one of them that was    *)
(* there all the time is listed; those beyond it were not, so that none of *)
(* them is, until a token is handed out twice.                             *)
(***************************************************************************)
EXTENDS Listing, FiniteSetTheorems, WellFoundedInduction, TLAPS

-----------------------------------------------------------------------------
(* The ends of a set of numbers *)

LEMMA LeastExists ==
  ASSUME NEW S \in SUBSET Nat, S # {}
  PROVE  \E n \in S : \A m \in S : n <= m
<1> DEFINE R == OpToRel(<, Nat)
<1>1. \E n \in S : \A m \in S : ~ (<<m, n>> \in R)
  <2>1. IsWellFoundedOn(R, Nat)
    BY NatLessThanWellFounded
  <2> HIDE DEF R
  <2>2. QED BY <2>1, WFMin
<1>2. \A m, n \in Nat : m < n => <<m, n>> \in R
  BY DEF OpToRel
<1> HIDE DEF R
<1>3. PICK n \in S : \A m \in S : ~ (<<m, n>> \in R)
  BY <1>1
<1>4. ASSUME NEW m \in S PROVE n <= m
  <2>1. m \in Nat /\ n \in Nat
    OBVIOUS
  <2>2. ~ (m < n)
    BY <1>2, <1>3, <2>1
  <2>3. QED BY <2>1, <2>2
<1>5. QED BY <1>4

LEMMA GreatestExists ==
  ASSUME NEW S \in SUBSET Nat, IsFiniteSet(S), S # {}
  PROVE  \E n \in S : \A m \in S : m <= n
<1> DEFINE Above(i) == {j \in S : j > i}
           Sizes == {Cardinality(Above(i)) : i \in S}
<1>1. \A i \in S : IsFiniteSet(Above(i)) /\ Cardinality(Above(i)) \in Nat
  BY FS_Subset, FS_CardinalityType
<1>2. PICK i \in S : \A j \in S : Cardinality(Above(i)) <= Cardinality(Above(j))
  <2>1. Sizes \in SUBSET Nat /\ Sizes # {}
    BY <1>1
  <2> HIDE DEF Sizes
  <2>2. PICK n \in Sizes : \A m \in Sizes : n <= m
    BY <2>1, LeastExists
  <2>3. QED BY <2>2 DEF Sizes
<1>3. ASSUME NEW j \in S, j > i PROVE FALSE
  <2>1. Above(j) \in SUBSET Above(i)
    <3>1. i \in Nat /\ j \in Nat
      OBVIOUS
    <3>2. ASSUME NEW k \in S, k > j PROVE k > i
      BY <3>1, <3>2, <1>3, k \in Nat
    <3>3. QED BY <3>2
  <2>2. Cardinality(Above(j)) <= Cardinality(Above(i))
    BY <1>1, <2>1, FS_Subset
  <2>3. Cardinality(Above(j)) = Cardinality(Above(i))
    BY <1>1, <1>2, <2>2
  <2>4. Above(i) = Above(j)
    BY <1>1, <2>1, <2>3, FS_Subset
  <2>5. j \in Above(i) /\ j \notin Above(j)
    BY <1>3
  <2>6. QED BY <2>4, <2>5
<1>4. QED BY <1>3

-----------------------------------------------------------------------------
(* Entries and pages *)

LEMMA EntryIsKey ==
  ASSUME NEW k \in Keys, NEW all \in BOOLEAN
  PROVE  Entry(k, all) \in Keys
<1>1. CASE k \in Dir /\ ~all
  <2>1. \E d \in Dir : \A e \in Dir : d <= e
    BY <1>1, ListingAssumption, LeastExists
  <2>2. QED BY <1>1, <2>1, ListingAssumption DEF Entry
<1>2. QED BY <1>1 DEF Entry

LEMMA EntriesAreKeys ==
  ASSUME NEW keys \in SUBSET Keys, NEW all \in BOOLEAN
  PROVE  Entries(keys, all) \in SUBSET Keys
BY EntryIsKey DEF Entries

Ahead == {i \in Entries(bucket, deep) : i > token}

\* A page is the beginning of what is ahead; its token is its last entry.
LEMMA PageFacts ==
  ASSUME ListTypeOK, NEW n \in 1 .. PageSize
  PROVE  LET r == Page(n)
         IN  /\ Pushed(r) \subseteq Ahead
             /\ \A i \in Ahead, j \in Pushed(r) : i <= j => i \in Pushed(r)
             /\ r.is_truncated \in BOOLEAN
             /\ r.is_truncated =>
                  /\ r.next_token \in Pushed(r)
                  /\ \A j \in Pushed(r) : j <= r.next_token
             /\ ~r.is_truncated => Pushed(r) = Ahead /\ r.next_token = None
<1> DEFINE Before(i) == {j \in Ahead : j < i}
           page == {i \in Ahead : Cardinality(Before(i)) < n}
           dirs == IF deep THEN {} ELSE page \cap Entries(Dir, FALSE)
           last == CHOOSE i \in page : \A j \in page : j <= i
<1>1. Page(n) = [contents |-> page \ dirs, common_prefixes |-> dirs,
                 is_truncated |-> page # Ahead,
                 next_token |-> IF page = Ahead THEN None ELSE last]
  BY DEF Page, Ahead
<1>2. Pushed(Page(n)) = page
  <2>1. Page(n).contents = page \ dirs /\ Page(n).common_prefixes = dirs
    BY <1>1
  <2>2. dirs \subseteq page
    OBVIOUS
  <2> HIDE DEF page, dirs
  <2>3. QED BY <2>1, <2>2 DEF Pushed
<1>3. Ahead \in SUBSET Keys /\ Ahead \in SUBSET Nat /\ IsFiniteSet(Ahead)
  <2>1. Ahead \in SUBSET Keys
    BY EntriesAreKeys DEF Ahead, ListTypeOK
  <2>2. QED BY <2>1, ListingAssumption, FS_Subset
<1>4. \A i \in Ahead : IsFiniteSet(Before(i)) /\ Cardinality(Before(i)) \in Nat
  BY <1>3, FS_Subset, FS_CardinalityType
<1>5. n \in Nat /\ n > 0
  BY ListingAssumption
<1>6. ASSUME NEW i \in Ahead, NEW j \in page, i <= j PROVE i \in page
  <2>1. i \in Nat /\ j \in Nat /\ j \in Ahead
    BY <1>3
  <2>2. Before(i) \in SUBSET Before(j)
    <3>1. ASSUME NEW k \in Ahead, k < i PROVE k < j
      BY <2>1, <1>3, <1>6, <3>1, k \in Nat
    <3>2. QED BY <3>1
  <2>3. Cardinality(Before(i)) <= Cardinality(Before(j))
    BY <2>1, <2>2, <1>4, FS_Subset
  <2>4. Cardinality(Before(j)) < n
    OBVIOUS
  <2>5. QED BY <2>1, <2>3, <2>4, <1>4, <1>5
<1>7. ASSUME page # Ahead PROVE last \in page /\ \A j \in page : j <= last
  <2>1. PICK i \in Ahead : \A j \in Ahead : i <= j
    BY <1>3, <1>7, LeastExists
  <2>2. Before(i) = {}
    <3>1. ASSUME NEW k \in Ahead PROVE ~ (k < i)
      BY <2>1, <1>3, k \in Nat, i \in Nat
    <3>2. QED BY <3>1
  <2>3. i \in page
    BY <2>1, <2>2, <1>5, FS_EmptySet
  <2>4. page \in SUBSET Nat /\ IsFiniteSet(page)
    BY <1>3, FS_Subset
  <2> HIDE DEF page
  <2>5. \E m \in page : \A j \in page : j <= m
    BY <2>3, <2>4, GreatestExists
  <2>6. QED BY <2>5
<1> HIDE DEF last, dirs
<1>8. QED
  <2>1. Page(n).is_truncated = (page # Ahead)
    BY <1>1
  <2>2. page # Ahead => Page(n).next_token = last
    BY <1>1
  <2>3. page = Ahead => Page(n).next_token = None
    BY <1>1
  <2> HIDE DEF Before
  <2>4. page \subseteq Ahead
    OBVIOUS
  <2> HIDE DEF page
  <2>5. QED BY <1>2, <1>6, <1>7, <2>1, <2>2, <2>3, <2>4

-----------------------------------------------------------------------------
(* classify *)

\* classify of error.rs: every error of the SDK, whatever its status and its
\* text, becomes a kind that fits it.
THEOREM ClassifyFits ==
  ASSUME NEW e \in SdkErrors
  PROVE  KindFits(e, Classify(e)) /\ Classify(e) \in Kinds
<1>1. /\ e.variant \in {"service", "timeout", "dispatch", "response", "construction"}
      /\ e.status \in Nat /\ e.detail \in Details
  BY DEF SdkErrors
<1>2. CASE e.variant = "service"
  <2>1. Classify(e) = OfStatus(e.status, e.detail)
    BY <1>2 DEF Classify
  <2>2. QED BY <1>1, <1>2, <2>1 DEF KindFits, OfStatus, Within, Kinds
<1>3. CASE e.variant # "service"
  <2>1. Classify(e) \in {"timeout", "network", "other"}
    BY <1>1, <1>3 DEF Classify
  <2>2. QED BY <1>3, <2>1 DEF KindFits, Kinds
<1>4. QED BY <1>2, <1>3

-----------------------------------------------------------------------------
(* The invariant *)

LEMMA CountUp ==
  ASSUME NEW m \in Nat, NEW n \in 0 .. m, n < m
  PROVE  n + 1 \in 0 .. m
OBVIOUS

\* What the token says of the pages so far, while the next is asked for.
TokenSplits ==
  stage = "asking" =>
    /\ listed = "none"
    /\ kept \subseteq Entries(bucket, deep)
    /\ Entries(bucket, deep) \subseteq ever
    /\ \A i \in kept : i <= token => times[i] > 0
    /\ "old token" \notin quirks => \A i \in Keys : times[i] > 0 => i <= token

\* Before the call nothing is known.
Untouched ==
  stage = "idle" =>
    /\ token = None /\ listed = "none" /\ quirks = {}
    /\ \A i \in Keys : times[i] = 0

ListIInv ==
  /\ ListTypeOK
  /\ Untouched
  /\ TokenSplits
  /\ NothingListedTwice
  /\ OkListsWhatStayed
  /\ ListErrorFits

LEMMA ListInitIInv == ListInit => ListIInv
<1> SUFFICES ASSUME ListInit PROVE ListIInv
  OBVIOUS
<1> USE DEF ListInit
<1>1. ListTypeOK
  <2>1. cause \in SdkErrors
    BY DEF SdkErrors, Unanswered, Details
  <2>2. bucket \subseteq Keys /\ deep \in BOOLEAN
    OBVIOUS
  <2>3. times \in [Keys -> 0 .. 2]
    OBVIOUS
  <2>4. changes \in 0 .. MaxChanges /\ pageFaults \in 0 .. MaxPageFaults
    BY ListingAssumption
  <2>5. QED BY <2>1, <2>2, <2>3, <2>4 DEF ListTypeOK
<1>2. Untouched /\ TokenSplits
  BY DEF Untouched, TokenSplits
<1>3. NothingListedTwice /\ OkListsWhatStayed /\ ListErrorFits
  BY DEF NothingListedTwice, OkListsWhatStayed, ListErrorFits
<1>4. QED BY <1>1, <1>2, <1>3 DEF ListIInv

LEMMA ListObjectsStep ==
  ASSUME ListIInv, NEW recursive \in BOOLEAN, ListObjects(recursive)
  PROVE  ListIInv'
<1> USE DEF ListObjects
<1>1. Entries(bucket, recursive) \in SUBSET Keys
  BY EntriesAreKeys DEF ListIInv, ListTypeOK
<1>2. ListTypeOK'
  BY <1>1 DEF ListIInv, ListTypeOK
<1>3. token = None /\ listed = "none" /\ \A i \in Keys : times[i] = 0
  BY DEF ListIInv, Untouched
<1>4. Entries(bucket, deep)' = Entries(bucket, recursive)
  BY DEF Entries, Entry
<1>5. ASSUME NEW i \in Entries(bucket, recursive) PROVE ~ (i <= token)
  <2>1. i \in Nat /\ i # 0
    BY <1>1, ListingAssumption
  <2>2. QED BY <2>1, <1>3 DEF None
<1>6. TokenSplits'
  <2>1. /\ listed' = "none"
        /\ kept' = Entries(bucket, recursive) /\ ever' = Entries(bucket, recursive)
        /\ token' = token /\ times' = times
    BY <1>3
  <2>2. \A i \in Keys : ~ (times[i] > 0)
    BY <1>3
  <2>3. QED BY <1>4, <1>5, <2>1, <2>2 DEF TokenSplits
<1>7. Untouched' /\ NothingListedTwice' /\ OkListsWhatStayed' /\ ListErrorFits'
  <2>1. \A i \in Keys : ~ (times'[i] > 0)
    BY <1>3
  <2>2. listed' = "none" /\ stage' = "asking"
    BY <1>3
  <2>3. QED
    BY <2>1, <2>2 DEF Untouched, NothingListedTwice, OkListsWhatStayed, ListErrorFits
<1>8. QED BY <1>2, <1>6, <1>7 DEF ListIInv

LEMMA ChangeStep ==
  ASSUME ListIInv, NEW keys \in SUBSET Keys, Change(keys)
  PROVE  ListIInv'
<1> USE DEF Change
<1>1. Entries(keys, deep) \in SUBSET Keys
  BY EntriesAreKeys DEF ListIInv, ListTypeOK
<1>2. ListTypeOK'
  <2>1. changes' \in 0 .. MaxChanges
    <3>1. MaxChanges \in Nat /\ changes \in 0 .. MaxChanges
      BY ListingAssumption DEF ListIInv, ListTypeOK
    <3>2. QED BY <3>1, CountUp
  <2>2. kept' \subseteq Keys /\ ever' \subseteq Keys
    BY <1>1 DEF ListIInv, ListTypeOK
  <2>3. QED BY <2>1, <2>2 DEF ListIInv, ListTypeOK
<1>3. Entries(bucket, deep)' = Entries(keys, deep)
  BY DEF Entries, Entry
<1>4. TokenSplits'
  BY <1>3 DEF ListIInv, TokenSplits
<1>5. NothingListedTwice' /\ OkListsWhatStayed' /\ ListErrorFits'
  BY DEF ListIInv, NothingListedTwice, OkListsWhatStayed, ListErrorFits
<1>6. QED BY <1>2, <1>4, <1>5 DEF ListIInv, Untouched

LEMMA LosePageStep ==
  ASSUME ListIInv, NEW e \in Failures, LosePage(e)
  PROVE  ListIInv'
<1> USE DEF LosePage
<1>1. e \in SdkErrors /\ Failed(e) = Classify(e)
  BY ListingAssumption DEF Failed
<1>2. KindFits(e, Failed(e)) /\ Failed(e) \in Kinds
  BY <1>1, ClassifyFits
<1>3. ListTypeOK'
  <2>1. pageFaults' \in 0 .. MaxPageFaults
    <3>1. MaxPageFaults \in Nat /\ pageFaults \in 0 .. MaxPageFaults
      BY ListingAssumption DEF ListIInv, ListTypeOK
    <3>2. QED BY <3>1, CountUp
  <2>2. cause' \in SdkErrors /\ listed' \in Kinds
    BY <1>1, <1>2
  <2>3. QED BY <2>1, <2>2 DEF ListIInv, ListTypeOK
<1>4. ListErrorFits'
  BY <1>2 DEF ListErrorFits, KindFits
<1>5. listed' # "ok"
  BY <1>2 DEF Kinds
<1>6. NothingListedTwice' /\ OkListsWhatStayed'
  BY <1>5 DEF ListIInv, NothingListedTwice, OkListsWhatStayed
<1>7. QED BY <1>3, <1>4, <1>6 DEF ListIInv, Untouched, TokenSplits

-----------------------------------------------------------------------------
(* A page is taken *)

\* What the store may answer: its page, or the page with a token that is
\* missing or was used before, which is a quirk only if there are more.
LEMMA AnswerFacts ==
  ASSUME ListTypeOK, NEW n \in 1 .. PageSize, NEW a \in Answers(n)
  PROVE  /\ a.quirk \in {"none", "old token", "no token"}
         /\ Pushed(a.page) = Pushed(Page(n))
         /\ a.page.is_truncated = Page(n).is_truncated
         /\ a.quirk = "none" /\ Page(n).is_truncated => a.page = Page(n)
         /\ a.quirk # "none" => Page(n).is_truncated
         /\ a.quirk = "no token" => a.page.next_token = None
         /\ a.quirk = "old token" => a.page.next_token = token /\ token # None
<1>1. CASE a = [page |-> Page(n), quirk |-> "none"]
  <2>1. a.page = Page(n) /\ a.quirk = "none"
    BY <1>1
  <2>2. QED BY <2>1
<1> DEFINE Quirk(t) == CASE ~Page(n).is_truncated -> "none"
                         [] Page(n).is_truncated /\ t = None -> "no token"
                         [] OTHER -> "old token"
<1>2. ASSUME NEW t \in {None, token},
             a = [page |-> [Page(n) EXCEPT !.next_token = t], quirk |-> Quirk(t)]
      PROVE  /\ a.quirk \in {"none", "old token", "no token"}
             /\ Pushed(a.page) = Pushed(Page(n))
             /\ a.page.is_truncated = Page(n).is_truncated
             /\ a.quirk = "none" <=> ~Page(n).is_truncated
             /\ a.quirk = "no token" => a.page.next_token = None
             /\ a.quirk = "old token" => a.page.next_token = token /\ token # None
  <2>1. PICK c, d, b, x : Page(n) = [contents |-> c, common_prefixes |-> d,
                                     is_truncated |-> b, next_token |-> x]
    BY DEF Page
  <2>2. /\ a.page.contents = c /\ a.page.common_prefixes = d
        /\ a.page.is_truncated = b /\ a.page.next_token = t
        /\ Page(n).contents = c /\ Page(n).common_prefixes = d
        /\ Page(n).is_truncated = b
    <3> DEFINE r == [contents |-> c, common_prefixes |-> d,
                     is_truncated |-> b, next_token |-> x]
    <3>1. a.page = [r EXCEPT !.next_token = t]
      BY <1>2, <2>1
    <3>2. [r EXCEPT !.next_token = t]
            = [contents |-> c, common_prefixes |-> d, is_truncated |-> b,
               next_token |-> t]
      OBVIOUS
    <3>3. Page(n) = r
      BY <2>1
    <3>4. QED BY <3>1, <3>2, <3>3
  <2>3. a.quirk = Quirk(t)
    BY <1>2
  <2>4. Page(n).is_truncated \in BOOLEAN
    BY PageFacts
  <2>5. /\ a.quirk \in {"none", "old token", "no token"}
        /\ a.quirk = "none" <=> ~Page(n).is_truncated
        /\ a.quirk = "no token" => t = None
        /\ a.quirk = "old token" => t = token /\ token # None
    BY <1>2, <2>3, <2>4
  <2>6. QED BY <2>2, <2>5 DEF Pushed
<1>3. \/ a = [page |-> Page(n), quirk |-> "none"]
      \/ \E t \in {None, token} :
           a = [page |-> [Page(n) EXCEPT !.next_token = t], quirk |-> Quirk(t)]
  BY DEF Answers
<1>4. CASE a # [page |-> Page(n), quirk |-> "none"]
  <2>1. PICK t \in {None, token} :
           a = [page |-> [Page(n) EXCEPT !.next_token = t], quirk |-> Quirk(t)]
    BY <1>3, <1>4
  <2>2. QED BY <1>2, <2>1
<1>5. QED BY <1>1, <1>4

LEMMA TakePageStep ==
  ASSUME ListIInv, TakePage
  PROVE  ListIInv'
<1>1. stage = "asking" /\ ListTypeOK /\ UNCHANGED <<bucket, deep, cause, kept, ever, changes>>
  BY DEF ListIInv, TakePage
<1>2a. PICK n \in 1 .. PageSize : \E a \in Answers(n) :
        /\ \/ a.quirk = "none" /\ UNCHANGED <<pageFaults, quirks>>
           \/ /\ a.quirk # "none" /\ pageFaults < MaxPageFaults
              /\ pageFaults' = pageFaults + 1
              /\ quirks' = quirks \cup {a.quirk}
        /\ times' = [i \in Keys |->
             IF i \in Pushed(a.page) /\ times[i] < 2 THEN times[i] + 1
             ELSE times[i]]
        /\ IF Continues(a.page)
           THEN token' = NextToken(a.page) /\ UNCHANGED <<stage, listed>>
           ELSE stage' = "ended" /\ listed' = "ok" /\ UNCHANGED token
  BY DEF TakePage
<1>2. PICK a \in Answers(n) :
        /\ \/ a.quirk = "none" /\ UNCHANGED <<pageFaults, quirks>>
           \/ /\ a.quirk # "none" /\ pageFaults < MaxPageFaults
              /\ pageFaults' = pageFaults + 1
              /\ quirks' = quirks \cup {a.quirk}
        /\ times' = [i \in Keys |->
             IF i \in Pushed(a.page) /\ times[i] < 2 THEN times[i] + 1
             ELSE times[i]]
        /\ IF Continues(a.page)
           THEN token' = NextToken(a.page) /\ UNCHANGED <<stage, listed>>
           ELSE stage' = "ended" /\ listed' = "ok" /\ UNCHANGED token
  BY <1>2a
<1> DEFINE page == Pushed(Page(n))
           more == Page(n).is_truncated
<1>3. /\ page \subseteq Ahead
      /\ \A i \in Ahead, j \in page : i <= j => i \in page
      /\ more => Page(n).next_token \in page /\ \A j \in page : j <= Page(n).next_token
      /\ ~more => page = Ahead /\ Page(n).next_token = None
  BY <1>1, PageFacts
<1>4. /\ a.quirk \in {"none", "old token", "no token"}
      /\ Pushed(a.page) = page
      /\ a.page.is_truncated = more
      /\ a.quirk = "none" /\ more => a.page = Page(n)
      /\ a.quirk # "none" => more
      /\ a.quirk = "no token" => a.page.next_token = None
      /\ a.quirk = "old token" => a.page.next_token = token /\ token # None
  BY <1>1, AnswerFacts
<1>5. Continues(a.page) <=> more /\ a.page.next_token # None
  BY <1>4 DEF Continues
<1> HIDE DEF page, more
<1>6. Ahead \subseteq Keys /\ Keys \subseteq Nat /\ None \notin Keys
  <2>1. Entries(bucket, deep) \in SUBSET Keys
    BY <1>1, EntriesAreKeys DEF ListTypeOK
  <2>2. QED BY <2>1, ListingAssumption DEF Ahead, None
\* A page after which the loop goes on has a token, and one that is right and
\* after which it ends is the last.
<1>7. /\ Continues(a.page) =>
           /\ token' \in Keys \cup {None}
           /\ \/ a.quirk = "none" /\ token' \in page /\ \A j \in page : j <= token'
              \/ a.quirk = "old token" /\ token' = token
      /\ ~Continues(a.page) /\ a.quirk = "none" => page = Ahead
      /\ Continues(a.page) => token' = a.page.next_token
  <2>1. a.quirk = "none" /\ more => Page(n).next_token # None
    BY <1>3, <1>6
  <2>2. token \in Keys \cup {None}
    BY <1>1 DEF ListTypeOK
  <2>3. QED BY <1>2, <1>3, <1>4, <1>5, <1>6, <2>1, <2>2 DEF NextToken
<1>8. /\ times \in [Keys -> 0 .. 2]
      /\ \A i \in Keys : times'[i] >= times[i] /\ (i \in page => times'[i] > 0)
                         /\ (i \notin page => times'[i] = times[i])
                         /\ (i \in page /\ times[i] = 0 => times'[i] = 1)
      /\ times' \in [Keys -> 0 .. 2]
  <2>1. times \in [Keys -> 0 .. 2]
    BY <1>1 DEF ListTypeOK
  <2>2. times' = [i \in Keys |-> IF i \in page /\ times[i] < 2 THEN times[i] + 1 ELSE times[i]]
    BY <1>2, <1>4
  <2>3. QED BY <2>1, <2>2
<1>9. ListTypeOK'
  <2>1. pageFaults' \in 0 .. MaxPageFaults
    <3>1. MaxPageFaults \in Nat /\ pageFaults \in 0 .. MaxPageFaults
      BY <1>1, ListingAssumption DEF ListTypeOK
    <3>2. QED BY <1>2, <3>1, CountUp
  <2>2. quirks' \subseteq {"old token", "no token"}
    BY <1>1, <1>2, <1>4 DEF ListTypeOK
  <2>3. token' \in Keys \cup {None}
    BY <1>1, <1>2, <1>7 DEF ListTypeOK
  <2>4. stage' \in {"idle", "asking", "ended"} /\ listed' \in {"none", "ok"} \cup Kinds
    BY <1>1, <1>2 DEF ListTypeOK
  <2>5. QED BY <1>1, <1>8, <2>1, <2>2, <2>3, <2>4 DEF ListTypeOK
<1>10. /\ listed = "none"
       /\ kept \subseteq Entries(bucket, deep) /\ Entries(bucket, deep) \subseteq ever
       /\ \A i \in kept : i <= token => times[i] > 0
       /\ "old token" \notin quirks => \A i \in Keys : times[i] > 0 => i <= token
  BY <1>1 DEF ListIInv, TokenSplits
<1>11. quirks \subseteq quirks' /\ (a.quirk # "none" => a.quirk \in quirks')
  BY <1>2
<1>12. kept \subseteq Keys /\ token \in Nat
  <2>1. kept \subseteq Keys /\ token \in Keys \cup {None}
    BY <1>1 DEF ListTypeOK
  <2>2. None \in Nat
    BY DEF None
  <2>3. QED BY <1>6, <2>1, <2>2
<1>13a. ASSUME NEW i \in kept PROVE i \in Ahead \/ i <= token
  <2>1. i \in Nat /\ i \in Entries(bucket, deep)
    BY <1>6, <1>10, <1>12
  <2>2. i > token \/ i <= token
    BY <1>12, <2>1
  <2>3. QED BY <2>1, <2>2 DEF Ahead
<1>13. ASSUME NEW i \in kept, i \in page \/ i <= token PROVE times'[i] > 0
  <2>1. i \in Keys /\ times[i] \in Nat /\ times'[i] \in Nat
    BY <1>8, <1>12
  <2>2. QED BY <1>8, <1>10, <1>13, <2>1
<1>14. TokenSplits'
  <2> SUFFICES ASSUME stage' = "asking" PROVE TokenSplits'
    BY DEF TokenSplits
  <2>1. Continues(a.page) /\ listed' = "none"
    BY <1>2, <1>10
  <2>2. Entries(bucket, deep)' = Entries(bucket, deep)
    BY <1>1 DEF Entries, Entry
  <2>3. ASSUME NEW i \in kept, i <= token' PROVE times'[i] > 0
    <3>1. CASE a.quirk = "none" /\ token' \in page
      <4>1. i \in Ahead \/ i <= token
        BY <1>13a
      <4>2. QED BY <1>3, <1>13, <2>3, <3>1, <4>1
    <3>2. CASE token' = token
      BY <1>13, <2>3, <3>2
    <3>3. QED BY <1>7, <2>1, <3>1, <3>2
  <2>4. ASSUME "old token" \notin quirks', NEW i \in Keys, times'[i] > 0
        PROVE  i <= token'
    <3>1. a.quirk = "none" /\ token' \in page /\ \A j \in page : j <= token'
      BY <1>7, <1>11, <2>1, <2>4
    <3>2. CASE i \in page
      BY <3>1, <3>2
    <3>3. CASE i \notin page
      <4>1. i <= token
        BY <1>8, <1>10, <1>11, <2>4, <3>3
      <4>2. token' \in Ahead /\ token' > token
        BY <1>3, <3>1 DEF Ahead
      <4>3. token' \in Nat /\ token \in Nat /\ i \in Nat
        BY <1>6, <1>12, <4>2
      <4>4. QED BY <4>1, <4>2, <4>3
    <3>4. QED BY <3>2, <3>3
  <2>5. QED BY <1>1, <1>10, <2>1, <2>2, <2>3, <2>4 DEF TokenSplits
<1>15. NothingListedTwice'
  <2> SUFFICES ASSUME NEW i \in Keys, times'[i] > 0
               PROVE  i \in ever /\ (times'[i] = 1 \/ "old token" \in quirks')
    BY <1>1 DEF NothingListedTwice
  <2>1. CASE i \notin page
    <3>1. times[i] > 0 /\ times'[i] = times[i]
      BY <1>8, <2>1
    <3>2. QED BY <1>11, <3>1 DEF ListIInv, NothingListedTwice
  <2>2. CASE i \in page
    <3>1. i \in ever /\ i > token
      BY <1>3, <1>10, <2>2 DEF Ahead
    <3>2. i \in Nat /\ token \in Nat /\ times[i] \in Nat
      BY <1>6, <1>8, <1>12
    <3>3. ASSUME "old token" \notin quirks' PROVE times[i] = 0
      <4>1. times[i] > 0 => i <= token
        BY <1>10, <1>11, <3>3
      <4>2. QED BY <3>1, <3>2, <4>1
    <3>4. QED BY <1>8, <2>2, <3>1, <3>3
  <2>3. QED BY <2>1, <2>2
<1>16. OkListsWhatStayed'
  <2> SUFFICES ASSUME listed' = "ok", "no token" \notin quirks', NEW i \in kept
               PROVE  times'[i] > 0
    BY <1>1 DEF OkListsWhatStayed
  <2>1. ~Continues(a.page)
    BY <1>2, <1>10
  <2>2. CASE a.quirk = "none"
    <3>1. i \in Ahead \/ i <= token
      BY <1>13a
    <3>2. QED BY <1>7, <1>13, <2>1, <2>2, <3>1
  <2>3. CASE a.quirk = "old token"
    BY <1>4, <1>5, <2>1, <2>3
  <2>4. QED BY <1>4, <1>11, <2>2, <2>3
<1>17. ListErrorFits' /\ Untouched'
  BY <1>1, <1>2, <1>10 DEF ListErrorFits, Untouched
<1>18. QED BY <1>9, <1>14, <1>15, <1>16, <1>17 DEF ListIInv

-----------------------------------------------------------------------------
(* The theorems *)

LEMMA ListStep == ListIInv /\ [ListNext]_listVars => ListIInv'
<1> SUFFICES ASSUME ListIInv, [ListNext]_listVars PROVE ListIInv'
  OBVIOUS
<1>1. ASSUME NEW recursive \in BOOLEAN, ListObjects(recursive) PROVE ListIInv'
  BY <1>1, ListObjectsStep
<1>2. CASE TakePage
  BY <1>2, TakePageStep
<1>3. ASSUME NEW e \in Failures, LosePage(e) PROVE ListIInv'
  BY <1>3, LosePageStep
<1>4. ASSUME NEW k \in Keys, PutKey(k) \/ DeleteKey(k) PROVE ListIInv'
  <2>1. bucket \cup {k} \in SUBSET Keys /\ bucket \ {k} \in SUBSET Keys
    BY DEF ListIInv, ListTypeOK
  <2>2. Change(bucket \cup {k}) \/ Change(bucket \ {k})
    BY <1>4 DEF PutKey, DeleteKey
  <2>3. QED BY <2>1, <2>2, ChangeStep
<1>5. CASE UNCHANGED listVars
  <2> USE <1>5 DEF listVars
  <2>1. ListTypeOK' /\ Untouched'
    BY DEF ListIInv, ListTypeOK, Untouched
  <2>2. Entries(bucket, deep)' = Entries(bucket, deep)
    BY DEF Entries, Entry
  <2>3. TokenSplits'
    BY <2>2 DEF ListIInv, TokenSplits
  <2>4. NothingListedTwice' /\ OkListsWhatStayed' /\ ListErrorFits'
    BY DEF ListIInv, NothingListedTwice, OkListsWhatStayed, ListErrorFits
  <2>5. QED BY <2>1, <2>3, <2>4 DEF ListIInv
<1>6. QED
  BY <1>1, <1>2, <1>3, <1>4, <1>5 DEF ListNext, ListProceed, ListRest

LEMMA ListInductive == ListSpec => []ListIInv
BY ListInitIInv, ListStep, PTL DEF ListSpec

\* paginated_list of client.rs: for every bucket, directory, page size and any
\* number of puts, deletions and faults, a key or directory is listed only if
\* it was there, and once unless a token was handed out twice.
THEOREM ListsOnce == ListSpec => []NothingListedTwice
BY ListInductive, PTL DEF ListIInv

\* And Ok means that everything that was there all the time is listed.
THEOREM ListsWhatStayed == ListSpec => []OkListsWhatStayed
BY ListInductive, PTL DEF ListIInv

\* The caller is told the kind of the error that ended the listing.
THEOREM ListsErrorKind == ListSpec => []ListErrorFits
BY ListInductive, PTL DEF ListIInv

\* Type correctness of the listing.
THEOREM TypeCorrect == ListSpec => []ListTypeOK
BY ListInductive, PTL DEF ListIInv
=============================================================================
