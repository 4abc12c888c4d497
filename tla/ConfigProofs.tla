---------------------------- MODULE ConfigProofs ----------------------------
(***************************************************************************)
(* That validate lets no client out whose transfers cannot be served, for  *)
(* every width of the integers and every sequence of calls; and with it    *)
(* the assumption of the theorems on HalfPool.                             *)
(***************************************************************************)
EXTENDS Config, TLAPS

LEMMA ModSmall ==
  ASSUME NEW n \in Nat, NEW m \in Nat, n < m
  PROVE  n % m = n
OBVIOUS

LEMMA ModLess ==
  ASSUME NEW n \in Nat, NEW m \in Nat \ {0}
  PROVE  n % m \in 0 .. (m - 1) /\ n % m <= n
OBVIOUS

-----------------------------------------------------------------------------
(* One half *)

\* The check of validate, where it does not wrap, leaves room for what
\* acquire_bulk asks for and one permit more.
LEMMA EnoughConnections ==
  ASSUME NEW connections \in 0 .. UsizeMax, NEW concurrency \in 0 .. UsizeMax,
         ~TooFew(connections, concurrency)
  PROVE  BulkFits(connections, concurrency)
<1>1. ASSUME concurrency < UsizeMax PROVE Reserved(concurrency) < connections
  <2>1. PlusOne(concurrency) = concurrency + 1
    BY <1>1, ConfigAssumption, ModSmall DEF PlusOne
  <2>2. concurrency + 1 <= connections
    BY <2>1 DEF TooFew
  <2> DEFINE m == U32Max + 1
  <2>a. m \in Nat \ {0} /\ concurrency \in Nat
    BY ConfigAssumption
  <2> HIDE DEF m
  <2>b. concurrency % m \in 0 .. (m - 1) /\ concurrency % m <= concurrency
    BY <2>a, ModLess
  <2>3. Reserved(concurrency) <= concurrency
    BY <2>b DEF Reserved, m
  <2>4. Reserved(concurrency) \in Int
    BY <2>a, <2>b DEF Reserved, m
  <2>5. QED BY <2>2, <2>3, <2>4, ConfigAssumption
<1>2. ASSUME concurrency <= U32Max PROVE Reserved(concurrency) = concurrency
  BY <1>2, ConfigAssumption, ModSmall DEF Reserved
<1>3. QED BY <1>1, <1>2 DEF BulkFits

-----------------------------------------------------------------------------
(* Every behaviour of the builder *)

\* Once build has run, and until its complaint is followed, its verdict is the
\* one on the options there are.
Judged == verdict # "building" => verdict = Verdict

LEMMA ValueInRange ==
  ASSUME TypeOK, NEW o \in Options
  PROVE  Value(o) \in 0 .. UsizeMax
BY ConfigAssumption DEF TypeOK, Value, Default, Options, Unset

LEMMA PlusOneInRange ==
  ASSUME NEW n \in 0 .. UsizeMax
  PROVE  PlusOne(n) \in 0 .. UsizeMax
BY ConfigAssumption, ModLess DEF PlusOne

\* The first check that fails, if one does.
LEMMA FirstComplaint ==
  \/ \E i \in 1 .. 8 :
       Verdict = Checks[i] /\ Fails(Checks[i]) /\ \A j \in 1 .. (i - 1) : ~Fails(Checks[j])
  \/ /\ \A i \in 1 .. 8 : ~Fails(Checks[i])
     /\ Verdict \in {"ok", "panic"}
     /\ Verdict = "panic" =>
          \E o \in {"read_connections", "write_connections"} : Value(o) > MaxPermits
<1>1. CASE \A i \in 1 .. 8 : ~Fails(Checks[i])
  BY <1>1 DEF Verdict
<1>2. CASE \E i \in 1 .. 8 : Fails(Checks[i])
  <2> DEFINE First(i) == Fails(Checks[i]) /\ \A j \in 1 .. (i - 1) : ~Fails(Checks[j])
  <2>1. \E i \in 1 .. 8 : First(i)
    <3>1. PICK i \in 1 .. 8 : Fails(Checks[i])
      BY <1>2
    <3>2. QED BY <3>1
  <2>2. Verdict = Checks[CHOOSE i \in 1 .. 8 : First(i)]
    BY <1>2 DEF Verdict
  <2>3. PICK i \in 1 .. 8 : i = (CHOOSE k \in 1 .. 8 : First(k)) /\ First(i)
    BY <2>1
  <2> QED
    BY <2>2, <2>3
<1> QED
  BY <1>1, <1>2

\* A complaint is one of the eight, and ok means that there is none.
LEMMA VerdictFacts ==
  /\ Verdict \in {"ok", "panic"} \cup {Checks[i] : i \in 1 .. 8}
  /\ Verdict = "ok" => \A i \in 1 .. 8 : ~Fails(Checks[i])
<1>1. \A i \in 1 .. 8 : Checks[i] # "ok"
  BY DEF Checks
<1>2. QED BY <1>1, FirstComplaint

LEMMA TypeStep == TypeOK /\ [Next]_vars => TypeOK'
<1> SUFFICES ASSUME TypeOK, [Next]_vars PROVE TypeOK'
  OBVIOUS
<1> USE ConfigAssumption DEF TypeOK
<1>1. ASSUME NEW r \in Required, Name(r) PROVE TypeOK'
  BY <1>1 DEF Name
<1>2. ASSUME NEW o \in Options, NEW n \in Values[o], Set(o, n) PROVE TypeOK'
  <2>1. n \in 0 .. UsizeMax
    BY <1>2
  <2>2. QED BY <1>2, <2>1 DEF Set
<1>3. CASE MaxThroughput
  <2>1. Preset \in [Options -> {Unset} \cup 0 .. UsizeMax]
    <3>1. \A n \in {64, 20, 16} : n \in {Unset} \cup 0 .. UsizeMax
      OBVIOUS
    <3>2. QED BY <3>1 DEF Preset, Options
  <2>2. QED BY <1>3, <2>1 DEF MaxThroughput
<1>4. CASE Build
  BY <1>4, VerdictFacts DEF Build
<1>5. CASE Repair
  <2>1. \A o \in Options : Asked(o) \in 0 .. UsizeMax
    BY ValueInRange, PlusOneInRange DEF Asked, Options
  <2>2. MinChunk \in 0 .. UsizeMax /\ 1 \in 0 .. UsizeMax
    BY DEF MinChunk
  <2>3. Advised \in [Options -> {Unset} \cup 0 .. UsizeMax]
    BY <2>1, <2>2 DEF Advised
  <2>4. QED BY <1>5, <2>3 DEF Repair
<1>6. CASE Rest
  BY <1>6 DEF Rest, vars
<1>7. CASE UNCHANGED vars
  BY <1>7 DEF vars
<1>8. QED BY <1>1, <1>2, <1>3, <1>4, <1>5, <1>6, <1>7 DEF Next

\* No setter follows the first build.
LEMMA JudgedStep == Judged /\ [Next]_vars => Judged'
<1> SUFFICES ASSUME Judged, [Next]_vars, verdict' # "building"
             PROVE  verdict' = Verdict'
  BY DEF Judged
<1>1. UNCHANGED <<given, option>> /\ verdict' = Verdict
  BY DEF Judged, Next, Name, Set, MaxThroughput, Building, Build, Repair, Rest, vars
<1>2. option' = option /\ given' = given
  BY <1>1
<1>3. Verdict' = Verdict
  BY ONLY <1>2 DEF Verdict, Fails, Value
<1> QED
  BY <1>1, <1>3

\* Type correctness of the builder.
THEOREM TypeCorrect == Spec => []TypeOK
<1>1. Init => TypeOK
  BY ConfigAssumption DEF Init, TypeOK
<1>2. QED BY <1>1, TypeStep, PTL DEF Spec

\* validate of config.rs: for every width of usize and u32, after any calls and
\* any repairs, a client's reservations fit into its pool (but for a
\* concurrency of usize::MAX, where the sum in the check wraps).
THEOREM EveryClientCanTransfer == Spec => []ClientCanTransfer
<1>1. Init => Judged
  BY DEF Init, Judged
<1>2. TypeOK /\ Judged => ClientCanTransfer
  <2> SUFFICES ASSUME TypeOK, verdict = "ok", Verdict = "ok"
               PROVE  ClientCanTransfer
    BY DEF Judged, ClientCanTransfer
  <2>1. \A i \in 1 .. 8 : ~Fails(Checks[i])
    BY VerdictFacts
  <2>2. ~Fails("concurrency") /\ ~Fails("read_connections") /\ ~Fails("write_connections")
    <3>1. Checks[6] = "concurrency" /\ Checks[7] = "read_connections"
          /\ Checks[8] = "write_connections"
      BY DEF Checks
    <3>2. 6 \in 1 .. 8 /\ 7 \in 1 .. 8 /\ 8 \in 1 .. 8
      OBVIOUS
    <3>3. QED BY <2>1, <3>1, <3>2
  <2>3. /\ Value("read_concurrency") # 0 /\ Value("write_concurrency") # 0
        /\ ~TooFew(Value("read_connections"), Value("read_concurrency"))
        /\ ~TooFew(Value("write_connections"), Value("write_concurrency"))
    BY <2>2 DEF Fails, Required
  <2>4. \A o \in Options : Value(o) \in 0 .. UsizeMax
    BY ValueInRange
  <2>5. /\ BulkFits(Value("read_connections"), Value("read_concurrency"))
        /\ BulkFits(Value("write_connections"), Value("write_concurrency"))
    BY <2>3, <2>4, EnoughConnections DEF Options
  <2>6. Value("read_concurrency") > 0 /\ Value("write_concurrency") > 0
    BY <2>3, <2>4, ConfigAssumption DEF Options
  <2>7. QED BY <2>5, <2>6 DEF ClientCanTransfer
<1>3. QED BY <1>1, <1>2, JudgedStep, TypeCorrect, PTL DEF Spec


-----------------------------------------------------------------------------
(* What build complains of *)

\* Nothing set since the preset: the defaults or the preset are built.
Untouched ==
  own = {} => option \in {[o \in Options |-> Unset], Preset}

\* A complaint that was followed stays settled, and so does all that validate
\* looks at before it.
Settled ==
  \A k \in 1 .. 8 :
    Checks[k] \in told => \A j \in 1 .. k : ~Fails(Checks[j])

\* The eight checks, one by one.
LEMMA ChecksAre ==
  /\ Checks[1] = "bucket" /\ Checks[2] = "region"
  /\ Checks[3] = "access_key_id" /\ Checks[4] = "secret_access_key"
  /\ Checks[5] = "chunk_size" /\ Checks[6] = "concurrency"
  /\ Checks[7] = "read_connections" /\ Checks[8] = "write_connections"
BY DEF Checks

EachCheck ==
  /\ \A k \in 1 .. 4 : Fails(Checks[k]) <=> Checks[k] \notin given
  /\ Fails(Checks[5]) <=> Value("chunk_size") < MinChunk
  /\ Fails(Checks[6]) <=>
       Value("read_concurrency") = 0 \/ Value("write_concurrency") = 0
  /\ Fails(Checks[7]) <=>
       TooFew(Value("read_connections"), Value("read_concurrency"))
  /\ Fails(Checks[8]) <=>
       TooFew(Value("write_connections"), Value("write_concurrency"))

LEMMA FailsAre == EachCheck
<1>1. \A k \in 1 .. 4 : Fails(Checks[k]) <=> Checks[k] \notin given
  <2> SUFFICES ASSUME NEW k \in 1 .. 4
               PROVE  Fails(Checks[k]) <=> Checks[k] \notin given
    OBVIOUS
  <2>1. /\ Checks[k] \in Required
        /\ Checks[k] \notin {"chunk_size", "concurrency", "read_connections",
                             "write_connections"}
    BY ChecksAre DEF Required
  <2> QED
    BY <2>1 DEF Fails
<1>2. /\ "chunk_size" \notin Required /\ "concurrency" \notin Required
      /\ "read_connections" \notin Required /\ "write_connections" \notin Required
  BY DEF Required
<1> QED
  BY <1>1, <1>2, ChecksAre DEF Fails, EachCheck

LEMMA UntouchedStep == TypeOK /\ Untouched /\ [Next]_vars => Untouched'
<1> SUFFICES ASSUME TypeOK, Untouched, [Next]_vars, own' = {}
             PROVE  option' \in {[o \in Options |-> Unset], Preset}
  BY DEF Untouched, Preset
<1>1. CASE MaxThroughput
  BY <1>1 DEF MaxThroughput
<1>2. CASE Repair
  <2>1. own = {} /\ \A o \in Options : Advised[o] = option[o]
    BY <1>2 DEF Repair
  <2>2. option' = Advised
    BY <1>2 DEF Repair
  <2>3. Advised = [o \in Options |-> Advised[o]] /\ option = [o \in Options |-> option[o]]
    BY DEF Advised, TypeOK
  <2>4. option' = option
    BY <2>1, <2>2, <2>3
  <2> QED
    BY <2>1, <2>4 DEF Untouched
<1>3. CASE own' = own /\ option' = option
  BY <1>3 DEF Untouched
<1> QED
  BY <1>1, <1>2, <1>3 DEF Next, Name, Set, Build, Rest, vars

\* Following a complaint settles it and unsettles nothing before it.
LEMMA RepairSettles ==
  ASSUME TypeOK, Repair, NEW i \in 1 .. 8, verdict = Checks[i],
         \A j \in 1 .. (i - 1) : ~Fails(Checks[j])
  PROVE  \A j \in 1 .. i : ~Fails(Checks[j])'
<1>1. given' = given \cup (Required \cap {verdict}) /\ option' = Advised
  BY DEF Repair
<1>2. \A o \in Options : Value(o) \in 0 .. UsizeMax /\ Asked(o) \in 0 .. UsizeMax
  BY ValueInRange, PlusOneInRange DEF Asked, Options
<1>3. ASSUME NEW o \in Options
      PROVE  Value(o)' = IF Advised[o] = option[o] THEN Value(o) ELSE Advised[o]
  <2>1. Advised[o] = option[o] \/ Advised[o] \in Nat
    BY <1>2, ConfigAssumption DEF Advised, MinChunk
  <2> QED
    BY <1>1, <2>1 DEF Value, Unset
<1>4. ASSUME NEW o \in Options
      PROVE  Advised[o] = CASE o = verdict /\ o = "chunk_size" -> MinChunk
                            [] o = verdict /\ o # "chunk_size" -> Asked(o)
                            [] verdict = "concurrency" /\ Value(o) = 0
                                 /\ o \in {"read_concurrency", "write_concurrency"} -> 1
                            [] OTHER -> option[o]
  BY DEF Advised
<1>5. EachCheck /\ EachCheck'
  BY FailsAre, PTL
<1>6. ASSUME NEW k \in 1 .. 4, k <= i
      PROVE  ~Fails(Checks[k])'
  <2>1. Checks[k] \in Required /\ (k = i => Checks[k] \in given')
    <3>1. Checks[k] \in Required
      BY ChecksAre DEF Required
    <3> QED
      BY <1>1, <3>1
  <2>2. k < i => Checks[k] \in given
    BY <1>5 DEF EachCheck
  <2>3. Checks[k] \in given'
    BY <1>1, <1>6, <2>1, <2>2
  <2> QED
    BY <1>5, <2>3 DEF EachCheck, Checks
<1>7. ASSUME 5 <= i
      PROVE  ~Fails(Checks[5])'
  <2>1. "chunk_size" \in Options /\ MinChunk \in Nat
    BY DEF Options, MinChunk
  <2>2. CASE i = 5
    <3>1. Advised["chunk_size"] = MinChunk
      BY <1>4, <2>1, <2>2, ChecksAre
    <3>2. option["chunk_size"] = MinChunk => Value("chunk_size") = MinChunk
      BY DEF Value, MinChunk, Unset
    <3>3. Value("chunk_size")' = MinChunk
      BY <1>3, <2>1, <3>1, <3>2
    <3> QED
      BY <1>5, <2>1, <3>3 DEF EachCheck, MinChunk
  <2>3. CASE i # 5
    <3>1. Advised["chunk_size"] = option["chunk_size"]
      BY <1>4, <1>7, <2>1, <2>3, ChecksAre
    <3>2. ~Fails(Checks[5])
      BY <1>7, <2>3
    <3> QED
      BY <1>3, <1>5, <2>1, <3>1, <3>2 DEF EachCheck
  <2> QED
    BY <2>2, <2>3
<1>8. ASSUME 6 <= i
      PROVE  ~Fails(Checks[6])'
  <2> SUFFICES ASSUME NEW o \in {"read_concurrency", "write_concurrency"}
               PROVE  Value(o)' # 0
    BY <1>5 DEF EachCheck
  <2>1. o \in Options /\ o # "chunk_size"
    BY DEF Options
  <2>2. o # verdict
    BY ChecksAre
  <2>3. CASE i = 6
    <3>1. verdict = "concurrency"
      BY <2>3, ChecksAre
    <3>2. Advised[o] = IF Value(o) = 0 THEN 1 ELSE option[o]
      BY <1>4, <2>1, <2>2, <3>1
    <3>3. Value(o) = 0 => option[o] = 0
      BY <2>1 DEF Value, Default
    <3> QED
      BY <1>3, <2>1, <3>2, <3>3
  <2>4. CASE i # 6
    <3>1. verdict # "concurrency"
      BY <2>4, ChecksAre
    <3>2. Advised[o] = option[o]
      BY <1>4, <2>1, <2>2, <3>1
    <3>3. ~Fails(Checks[6])
      BY <1>8, <2>4
    <3> QED
      BY <1>3, <1>5, <2>1, <3>2, <3>3 DEF EachCheck
  <2> QED
    BY <2>3, <2>4
<1>9. ASSUME 7 <= i, NEW k \in {7, 8}, k <= i, NEW conn, NEW conc,
             \/ k = 7 /\ conn = "read_connections" /\ conc = "read_concurrency"
             \/ k = 8 /\ conn = "write_connections" /\ conc = "write_concurrency"
      PROVE  ~TooFew(Value(conn)', Value(conc)')
  <2>1. /\ conn \in Options /\ conc \in Options
        /\ conn # "chunk_size" /\ conc # "chunk_size"
        /\ conn \notin {"read_concurrency", "write_concurrency"}
        /\ conn = Checks[k]
    BY <1>9, ChecksAre DEF Options
  <2>2. verdict # "concurrency" /\ conc # verdict
    BY <1>9, ChecksAre
  <2>3. Advised[conc] = option[conc]
    BY <1>4, <2>1, <2>2
  <2>4. Value(conc)' = Value(conc)
    BY <1>3, <2>1, <2>3
  <2>5. CASE k = i
    <3>1. Advised[conn] = Asked(conn)
      BY <1>4, <2>1, <2>5
    <3>2. Asked(conn) = PlusOne(Value(conc))
      BY <1>9 DEF Asked
    <3>3. Value(conn)' = PlusOne(Value(conc))
      <4>1. Advised[conn] = option[conn] => Value(conn) = option[conn]
        <5>1. Asked(conn) \in Nat
          BY <1>2, <2>1, ConfigAssumption
        <5> QED
          BY <3>1, <5>1 DEF Value, Unset
      <4> QED
        BY <1>3, <2>1, <3>1, <3>2, <4>1
    <3>4. PlusOne(Value(conc)) \in Int
      BY <1>2, <2>1, <3>2, ConfigAssumption
    <3> QED
      BY <2>4, <3>3, <3>4 DEF TooFew, PlusOne
  <2>6. CASE k # i
    <3>1. conn # verdict
      BY <2>1, <2>6, ChecksAre
    <3>2. Advised[conn] = option[conn]
      BY <1>4, <2>1, <2>2, <3>1
    <3>3. ~TooFew(Value(conn), Value(conc))
      BY <1>5, <1>9, <2>6 DEF EachCheck
    <3> QED
      BY <1>3, <2>1, <2>4, <3>2, <3>3
  <2> QED
    BY <2>5, <2>6
<1>10. ASSUME NEW k \in {7, 8}, k <= i
       PROVE  ~Fails(Checks[k])'
  BY <1>5, <1>9, <1>10 DEF EachCheck, TooFew, PlusOne
<1> QED
  BY <1>6, <1>7, <1>8, <1>10

\* What has been settled stays so: no setter follows a complaint.
LEMMA SettledStep ==
  ASSUME TypeOK, Judged, Settled, [Next]_vars
  PROVE  Settled'
<1> SUFFICES ASSUME NEW k \in 1 .. 8, Checks[k] \in told', NEW j \in 1 .. k
             PROVE  ~Fails(Checks[j])'
  BY DEF Settled, Checks
<1>1. CASE UNCHANGED <<given, option, told>>
  <2>1. ~Fails(Checks[j])
    BY <1>1 DEF Settled
  <2> QED
    BY <1>1, <2>1 DEF Fails, Value, Checks
<1>2. CASE Building /\ told' = told
  BY <1>2 DEF Building
<1>3. CASE Repair
  <2>1. verdict = Verdict /\ verdict \notin {"ok", "panic"} /\ told' = told \cup {verdict}
    BY <1>3 DEF Repair, Judged
  <2>2. PICK i \in 1 .. 8 : /\ verdict = Checks[i] /\ Fails(Checks[i])
                            /\ \A h \in 1 .. (i - 1) : ~Fails(Checks[h])
    BY <2>1, FirstComplaint
  <2>3. k <= i
    <3>1. CASE Checks[k] \in told
      BY <2>2, <3>1 DEF Settled
    <3>2. CASE Checks[k] = verdict
      BY <2>2, <3>2, ChecksAre
    <3> QED
      BY <2>1, <3>1, <3>2
  <2> QED
    BY <1>3, <2>2, <2>3, RepairSettles
<1> QED
  BY <1>1, <1>2, <1>3 DEF Next, Name, Set, MaxThroughput, Build, Rest, vars

LEMMA History == Spec => [](Judged /\ Untouched /\ Settled)
<1>1. Init => Judged /\ Untouched /\ Settled
  BY DEF Init, Judged, Untouched, Settled
<1>2. TypeOK /\ Judged /\ Untouched /\ Settled /\ [Next]_vars
        => (Judged /\ Untouched /\ Settled)'
  BY JudgedStep, UntouchedStep, SettledStep
<1> QED
  BY <1>1, <1>2, TypeCorrect, PTL DEF Spec

\* build of config.rs: the documented defaults, and max_throughput over
\* anything set before it, are refused for a missing name at most.
THEOREM DefaultsAndPresetBuild == Spec => []DefaultsAndPresetPass
<1>1. ASSUME Judged, Untouched, TypeOK, own = {}
      PROVE  verdict \in {"building", "ok"} \cup Required
  <2> SUFFICES ASSUME verdict = Verdict
               PROVE  Verdict \in {"ok"} \cup Required
    BY <1>1 DEF Judged
  <2>1. /\ Value("chunk_size") \in {8, 64}
        /\ \/ /\ Value("read_connections") = 15 /\ Value("write_connections") = 10
              /\ Value("read_concurrency") = 4 /\ Value("write_concurrency") = 4
           \/ /\ Value("read_connections") = 20 /\ Value("write_connections") = 20
              /\ Value("read_concurrency") = 16 /\ Value("write_concurrency") = 16
    BY <1>1 DEF Untouched, Value, Default, Preset, Options, Unset
  <2>2. PlusOne(4) = 5 /\ PlusOne(16) = 17
    <3>1. UsizeMax + 1 \in Nat /\ 5 < UsizeMax + 1 /\ 17 < UsizeMax + 1
      BY ConfigAssumption
    <3> QED
      BY <3>1, ModSmall DEF PlusOne
  <2>3. \A i \in 5 .. 8 : ~Fails(Checks[i])
    <3>1. ~Fails(Checks[5]) /\ ~Fails(Checks[6])
      BY <2>1, FailsAre DEF EachCheck, MinChunk
    <3>2. ~Fails(Checks[7]) /\ ~Fails(Checks[8])
      BY <2>1, <2>2, FailsAre DEF EachCheck, TooFew
    <3> QED
      BY <3>1, <3>2
  <2>4. Verdict # "panic"
    <3>1. \A o \in {"read_connections", "write_connections"} : ~(Value(o) > MaxPermits)
      BY <2>1, ConfigAssumption
    <3>2. \A i \in 1 .. 8 : Checks[i] # "panic"
      BY ChecksAre
    <3> QED
      BY <3>1, <3>2, FirstComplaint
  <2>5. \A i \in 1 .. 4 : Checks[i] \in Required
    BY ChecksAre DEF Required
  <2>6. CASE Verdict \in {"ok", "panic"}
    BY <2>4, <2>6
  <2>7. CASE \E i \in 1 .. 8 : Verdict = Checks[i] /\ Fails(Checks[i])
    <3>1. PICK i \in 1 .. 8 : Verdict = Checks[i] /\ Fails(Checks[i])
      BY <2>7
    <3>2. i \in 1 .. 4
      BY <2>3, <3>1
    <3> QED
      BY <2>5, <3>1, <3>2
  <2> QED
    BY <2>6, <2>7, FirstComplaint
<1>2. TypeOK /\ Judged /\ Untouched => DefaultsAndPresetPass
  BY <1>1 DEF DefaultsAndPresetPass
<1> QED
  BY <1>2, History, TypeCorrect, PTL

\* The messages of validate: who does what one asks for, in whatever
\* configuration, does not hear it again - the advice covers the permit to
\* spare, and following a later message upsets no earlier one.
THEOREM AdviceSettles == Spec => []AdviceIsEnough
<1>1. TypeOK /\ Judged /\ Settled => AdviceIsEnough
  <2> SUFFICES ASSUME TypeOK, Judged, Settled, verdict \in told
               PROVE  FALSE
    BY DEF AdviceIsEnough
  <2>1. PICK k \in 1 .. 8 : verdict = Checks[k]
    BY DEF TypeOK
  <2>2. ~Fails(Checks[k]) /\ \A j \in 1 .. k : ~Fails(Checks[j])
    BY <2>1 DEF Settled
  <2>3. verdict = Verdict
    BY <2>1, ChecksAre DEF Judged
  <2>4. \A i \in 1 .. 8 : Checks[i] = Checks[k] => i = k
    BY ChecksAre
  <2>5. Verdict \notin {"ok", "panic"}
    <3>1. \A i \in 1 .. 8 : Checks[i] \notin {"ok", "panic"}
      BY ChecksAre
    <3> QED
      BY <2>1, <2>3, <3>1
  <2> QED
    BY <2>1, <2>2, <2>3, <2>4, <2>5, FirstComplaint
<1> QED
  BY <1>1, History, TypeCorrect, PTL
=============================================================================
