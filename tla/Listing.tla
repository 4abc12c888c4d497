------------------------------ MODULE Listing ------------------------------
(***************************************************************************)
(* list_objects of src/client.rs once it has its permit: the loop of       *)
(* paginated_list over the pages of a bucket that others change between    *)
(* one page and the next.                                                  *)
(*                                                                         *)
(* A key is a number: the order of the names.  Without `recursive` the     *)
(* store rolls the keys of a directory up into one entry, which stands     *)
(* where the first of them does.  The store may answer with an error,      *)
(* repeat a continuation token or leave it out; a faulty store is bounded, *)
(* for against one that repeats itself for ever the loop does not end.     *)
(***************************************************************************)
EXTENDS ErrorKinds, FiniteSets

CONSTANTS
  Keys,            \* what the bucket may hold under the prefix
  Dir,             \* those in a directory below the prefix, neighbours
  PageSize,        \* entries of a page, at most
  Failures,        \* errors the SDK may return
  MaxChanges,      \* bound: puts and deletions
  MaxPageFaults    \* bound: pages that fail or are answered wrongly

ASSUME ListingAssumption ==
  /\ Keys \subseteq Nat \ {0} /\ IsFiniteSet(Keys)
  /\ Dir \subseteq Keys
  /\ \A d, e \in Dir, k \in Keys : d <= k /\ k <= e => k \in Dir
  /\ PageSize \in Nat \ {0}
  /\ Failures \subseteq SdkErrors
  /\ MaxChanges \in Nat /\ MaxPageFaults \in Nat

VARIABLES
  bucket,    \* the keys there are
  deep,      \* the argument `recursive`
  stage,     \* idle, asking for a page, or ended
  token,     \* the continuation token: the last entry it stands for, or None
  times,     \* how often `entries` has each entry: 0, 1, or 2 for more
  listed,    \* what list_objects returned: none, ok or an ErrorKind
  cause,     \* history: the error of the page that failed
  kept,      \* history: entries there at every moment of the call
  ever,      \* history: entries there at some moment of it
  quirks,    \* history: how the store has broken its protocol
  changes, pageFaults

listVars == <<bucket, deep, stage, token, times, listed, cause, kept, ever,
              quirks, changes, pageFaults>>

None == 0

\* The entry a key is listed as.
Entry(k, all) ==
  IF k \in Dir /\ ~all THEN CHOOSE d \in Dir : \A e \in Dir : d <= e ELSE k
Entries(keys, all) == {Entry(k, all) : k \in keys}

ListInit ==
  /\ bucket \in SUBSET Keys
  /\ deep = FALSE
  /\ stage = "idle"
  /\ token = None
  /\ times = [i \in Keys |-> 0]
  /\ listed = "none"
  /\ cause = Unanswered("construction", "none")
  /\ kept = {} /\ ever = {} /\ quirks = {}
  /\ changes = 0 /\ pageFaults = 0

-----------------------------------------------------------------------------
(* Others put and delete keys *)

Change(keys) ==
  /\ stage = "asking"
  /\ changes < MaxChanges
  /\ changes' = changes + 1
  /\ bucket' = keys
  /\ kept' = kept \cap Entries(keys, deep)
  /\ ever' = ever \cup Entries(keys, deep)
  /\ UNCHANGED <<deep, stage, token, times, listed, cause, quirks, pageFaults>>

PutKey(k) == k \notin bucket /\ Change(bucket \cup {k})
DeleteKey(k) == k \in bucket /\ Change(bucket \ {k})

-----------------------------------------------------------------------------
(* The store's pages *)

\* The next n entries after the token, those rolled up apart, and a token if
\* there are more.
Page(n) ==
  LET ahead == {i \in Entries(bucket, deep) : i > token}
      page  == {i \in ahead : Cardinality({j \in ahead : j < i}) < n}
      dirs  == IF deep THEN {} ELSE page \cap Entries(Dir, FALSE)
  IN  [contents        |-> page \ dirs,
       common_prefixes |-> dirs,
       is_truncated    |-> page # ahead,
       next_token      |-> IF page = ahead THEN None
                           ELSE CHOOSE i \in page : \A j \in page : j <= i]

\* What the store may answer to the request: a page that is right, or one with
\* the token it was asked with or with none.  On a last page a token means
\* nothing; on another that breaks the protocol.
Answers(n) ==
  LET r == Page(n)
  IN  {[page |-> r, quirk |-> "none"]}
        \cup {[page |-> [r EXCEPT !.next_token = t],
               quirk |-> CASE ~r.is_truncated -> "none"
                           [] r.is_truncated /\ t = None -> "no token"
                           [] OTHER -> "old token"]
              : t \in {None, token}}

-----------------------------------------------------------------------------
(* paginated_list *)

ListObjects(recursive) ==
  /\ stage = "idle"
  /\ stage' = "asking"
  /\ deep' = recursive
  /\ kept' = Entries(bucket, recursive)
  /\ ever' = Entries(bucket, recursive)
  /\ UNCHANGED <<bucket, token, times, listed, cause, quirks, changes,
                 pageFaults>>

\* What a page adds to `entries`.
Pushed(r) == r.contents \cup r.common_prefixes

\* Mutants of Continues: is_truncated is not looked at; a page without a token
\* is asked for from the start.
ContinuesOnToken(r) == r.next_token # None
ContinuesAlways(r) == TRUE
\* (Some(true), Some(t)) goes on, everything else breaks.
Continues(r) == r.is_truncated /\ r.next_token # None

NextToken(r) == r.next_token

TakePage ==
  /\ stage = "asking"
  /\ \E n \in 1 .. PageSize : \E a \in Answers(n) :
       /\ \/ a.quirk = "none" /\ UNCHANGED <<pageFaults, quirks>>
          \/ /\ a.quirk # "none" /\ pageFaults < MaxPageFaults
             /\ pageFaults' = pageFaults + 1
             /\ quirks' = quirks \cup {a.quirk}
       /\ times' = [i \in Keys |->
            IF i \in Pushed(a.page) /\ times[i] < 2 THEN times[i] + 1
            ELSE times[i]]
       /\ IF Continues(a.page)
          THEN token' = NextToken(a.page) /\ UNCHANGED <<stage, listed>>
          ELSE stage' = "ended" /\ listed' = "ok" /\ UNCHANGED token
  /\ UNCHANGED <<bucket, deep, cause, kept, ever, changes>>

\* Mutant of Failed: what there is so far is returned.
FailedQuietly(e) == "ok"
\* send().await.map_err(classify)?
Failed(e) == Classify(e)

LosePage(e) ==
  /\ stage = "asking"
  /\ pageFaults < MaxPageFaults
  /\ pageFaults' = pageFaults + 1
  /\ stage' = "ended"
  /\ listed' = Failed(e)
  /\ cause' = e
  /\ UNCHANGED <<bucket, deep, token, times, kept, ever, quirks, changes>>

\* The call is over.
ListRest == stage = "ended" /\ UNCHANGED listVars

ListProceed ==
  \/ \E recursive \in BOOLEAN : ListObjects(recursive)
  \/ TakePage
  \/ \E e \in Failures : LosePage(e)

ListNext ==
  \/ ListProceed
  \/ \E k \in Keys : PutKey(k) \/ DeleteKey(k)
  \/ ListRest

ListSpec == ListInit /\ [][ListNext]_listVars

-----------------------------------------------------------------------------
(* Properties *)

ListTypeOK ==
  /\ bucket \subseteq Keys
  /\ deep \in BOOLEAN
  /\ stage \in {"idle", "asking", "ended"}
  /\ token \in Keys \cup {None}
  /\ times \in [Keys -> 0 .. 2]
  /\ listed \in {"none", "ok"} \cup Kinds
  /\ cause \in SdkErrors
  /\ kept \subseteq Keys /\ ever \subseteq Keys
  /\ quirks \subseteq {"old token", "no token"}
  /\ changes \in 0 .. MaxChanges /\ pageFaults \in 0 .. MaxPageFaults

\* Whatever is put and deleted between the pages: a key, or a directory, is
\* listed only if it was there during the call, and once, unless the store
\* handed out a token twice.
NothingListedTwice ==
  \A i \in Keys : times[i] > 0 =>
    /\ i \in ever
    /\ times[i] = 1 \/ "old token" \in quirks

\* Ok means complete: every key that was there all the time is listed, and
\* without `recursive` every directory that always had a key, unless the store
\* cut the listing short by a missing token.  No failed page passes for the
\* last one.
OkListsWhatStayed ==
  (listed = "ok" /\ "no token" \notin quirks) => \A i \in kept : times[i] > 0

\* The kind of error the caller is told is the one the failed page was.
ListErrorFits ==
  listed \notin {"none", "ok"} => KindFits(cause, listed)

\* The call ends, if the store does not repeat a token for ever and others put
\* only so many keys ahead of it.
EveryListEnds == stage = "asking" ~> stage = "ended"
=============================================================================
