------------------------------- MODULE Config -------------------------------
(***************************************************************************)
(* S3ConfigBuilder of src/config.rs: setters and the preset in any order,  *)
(* then build, which validates and makes the pool (S3Client::from_config). *)
(* A caller whose build is refused does what the message asks for and      *)
(* builds again.                                                           *)
(*                                                                         *)
(* Numbers have the width of usize and wrap, as they do in a release       *)
(* build; acquire_bulk asks the semaphore for a u32, and the semaphore     *)
(* takes no more than MaxPermits.  Left out are the options that build     *)
(* does not look at (multipart_threshold, timeout, endpoint and so on).    *)
(***************************************************************************)
EXTENDS Integers

CONSTANTS
  UsizeMax, U32Max,  \* usize::MAX and u32::MAX
  MaxPermits,        \* tokio's Semaphore::MAX_PERMITS
  Values,            \* the numbers each setter is called with
  MaxCalls           \* bound: calls of the numeric setters and the preset

Options == {"chunk_size", "read_connections", "write_connections",
            "read_concurrency", "write_concurrency"}

ASSUME ConfigAssumption ==
  /\ UsizeMax \in Nat /\ U32Max \in Nat /\ MaxPermits \in Nat
  /\ 20 < U32Max /\ U32Max < MaxPermits /\ MaxPermits < UsizeMax
  /\ 64 < UsizeMax
  /\ Values \in [Options -> SUBSET (0 .. UsizeMax)]
  /\ MaxCalls \in Nat

VARIABLES
  given,    \* the required options set to something that is not empty
  option,   \* the numeric options, Unset for None
  verdict,  \* building, ok, panic, or what build complained of
  calls,
  own,      \* history: options the caller has set since the preset, if any
  told      \* history: complaints the caller has followed

vars == <<given, option, verdict, calls, own, told>>

Unset == -1
MinChunk == 5  \* MiB

Required == {"bucket", "region", "access_key_id", "secret_access_key"}

\* CHUNK (in MiB), READ_CONN, WRITE_CONN, READ_CONC, WRITE_CONC.
Default == [chunk_size |-> 8, read_connections |-> 15, write_connections |-> 10,
            read_concurrency |-> 4, write_concurrency |-> 4]

\* Mutant of Preset: the write half stays as it was.
PresetOfReads ==
  [option EXCEPT !["chunk_size"] = 64, !["read_connections"] = 20,
     !["read_concurrency"] = 16, !["write_concurrency"] = 16]
Preset ==
  [o \in Options |->
     CASE o = "chunk_size" -> 64
       [] o \in {"read_connections", "write_connections"} -> 20
       [] o \in {"read_concurrency", "write_concurrency"} -> 16]

Init ==
  /\ given = {}
  /\ option = [o \in Options |-> Unset]
  /\ verdict = "building"
  /\ calls = 0
  /\ own = {} /\ told = {}

-----------------------------------------------------------------------------
(* The calls of the builder *)

\* Setters come before the first build.
Building == verdict = "building" /\ told = {}

\* bucket(v) and the like: an empty string is as good as none.
Name(r) ==
  /\ Building
  /\ given' \in {given \cup {r}, given \ {r}}
  /\ UNCHANGED <<option, verdict, calls, own, told>>

Set(o, n) ==
  /\ Building
  /\ calls < MaxCalls
  /\ option' = [option EXCEPT ![o] = n]
  /\ calls' = calls + 1
  /\ own' = own \cup {o}
  /\ UNCHANGED <<given, verdict, told>>

MaxThroughput ==
  /\ Building
  /\ calls < MaxCalls
  /\ option' = Preset
  /\ calls' = calls + 1
  /\ own' = {}
  /\ UNCHANGED <<given, verdict, told>>

-----------------------------------------------------------------------------
(* build *)

\* unwrap_or.
Value(o) == IF option[o] = Unset THEN Default[o] ELSE option[o]

\* Mutant of PlusOne: computed in a wider type.
PlusOneWide(n) == n + 1
PlusOne(n) == (n + 1) % (UsizeMax + 1)

\* Mutant of TooFew: no permit to spare for a single request.
TooFewForBulk(connections, concurrency) == connections < concurrency
TooFew(connections, concurrency) == connections < PlusOne(concurrency)

Fails(check) ==
  CASE check \in Required -> check \notin given
    [] check = "chunk_size" -> Value("chunk_size") < MinChunk
    [] check = "concurrency" ->
         Value("read_concurrency") = 0 \/ Value("write_concurrency") = 0
    [] check = "read_connections" ->
         TooFew(Value("read_connections"), Value("read_concurrency"))
    [] check = "write_connections" ->
         TooFew(Value("write_connections"), Value("write_concurrency"))

\* In the order of validate.
Checks == <<"bucket", "region", "access_key_id", "secret_access_key",
            "chunk_size", "concurrency", "read_connections", "write_connections">>

\* n as u32: the permits acquire_bulk(n) asks for.
Reserved(n) == n % (U32Max + 1)

\* Semaphore::new panics on a pool that is too large.
Verdict ==
  IF \E i \in 1 .. 8 : Fails(Checks[i])
  THEN Checks[CHOOSE i \in 1 .. 8 :
                Fails(Checks[i]) /\ \A j \in 1 .. (i - 1) : ~Fails(Checks[j])]
  ELSE IF \E o \in {"read_connections", "write_connections"} : Value(o) > MaxPermits
  THEN "panic" ELSE "ok"

Build ==
  /\ verdict = "building"
  /\ verdict' = Verdict
  /\ UNCHANGED <<given, option, calls, own, told>>

\* Mutant of Asked: the message leaves out the permit to spare.
AskedForBulk(o) == Value(IF o = "read_connections" THEN "read_concurrency"
                         ELSE "write_concurrency")
\* "must be >= read_concurrency + 1 ({})".
Asked(o) ==
  PlusOne(Value(IF o = "read_connections" THEN "read_concurrency"
                ELSE "write_concurrency"))

\* The least that the message asks for.
Advised ==
  [o \in Options |->
     CASE o = verdict /\ o = "chunk_size" -> MinChunk
       [] o = verdict /\ o # "chunk_size" -> Asked(o)
       [] verdict = "concurrency" /\ Value(o) = 0
            /\ o \in {"read_concurrency", "write_concurrency"} -> 1
       [] OTHER -> option[o]]

Repair ==
  /\ verdict \notin {"building", "ok", "panic"}
  /\ given' = given \cup (Required \cap {verdict})
  /\ option' = Advised
  /\ own' = own \cup {o \in Options : Advised[o] # option[o]}
  /\ told' = told \cup {verdict}
  /\ verdict' = "building"
  /\ UNCHANGED calls

Rest == verdict \in {"ok", "panic"} /\ UNCHANGED vars

Next ==
  \/ \E r \in Required : Name(r)
  \/ \E o \in Options : \E n \in Values[o] : Set(o, n)
  \/ MaxThroughput \/ Build \/ Repair \/ Rest

Spec == Init /\ [][Next]_vars

-----------------------------------------------------------------------------
(* Properties *)

TypeOK ==
  /\ given \subseteq Required
  /\ option \in [Options -> {Unset} \cup 0 .. UsizeMax]
  /\ verdict \in {"building", "ok", "panic"} \cup {Checks[i] : i \in 1 .. 8}
  /\ calls \in 0 .. MaxCalls
  /\ own \subseteq Options
  /\ told \subseteq {Checks[i] : i \in 1 .. 8}

\* What a transfer reserves fits into its half with a permit to spare, and it is
\* all the transfer will use at a time.  Two limits: at usize::MAX the check
\* wraps and lets any pool pass; above u32::MAX less than the concurrency is
\* reserved, if anything.
BulkFits(connections, concurrency) ==
  /\ concurrency < UsizeMax => Reserved(concurrency) < connections
  /\ concurrency <= U32Max => Reserved(concurrency) = concurrency

\* "Deadlock prevention: builder rejects configs where connections <
\* concurrency + 1": whatever the setters and the preset were called with, in
\* whatever order, and whatever complaints were followed, no client comes out
\* whose reservations its pool can never grant.
ClientCanTransfer ==
  verdict = "ok" =>
    /\ Value("read_concurrency") > 0 /\ Value("write_concurrency") > 0
    /\ BulkFits(Value("read_connections"), Value("read_concurrency"))
    /\ BulkFits(Value("write_connections"), Value("write_concurrency"))

\* The defaults pass validation, and so does the preset over anything that was
\* set before it.
DefaultsAndPresetPass ==
  own = {} => verdict \in {"building", "ok"} \cup Required

\* A caller who does what the message asks for is not told the same again.
AdviceIsEnough == verdict \notin told
=============================================================================
