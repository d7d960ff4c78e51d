--------------------------- MODULE SettingsProofs ---------------------------
(***************************************************************************)
(* For every text, limit and table of units: `offs cache size` computes    *)
(* the number that is written or rejects it.  For every default, number of *)
(* flags and number of reloads: which of the places a setting can be       *)
(* written in is the one in force.                                         *)
(*                                                                         *)
(* The loop over the digits and the number they denote are recursive       *)
(* functions.  What they compute is shown at a least counterexample, which *)
(* takes the place of an induction.                                        *)
(***************************************************************************)
EXTENDS Settings, WellFoundedInduction, TLAPS

\* A set of numbers that is not empty has a least one.
LEMMA LeastNumber ==
  ASSUME NEW T, T \subseteq Nat, T # {}
  PROVE  \E n \in T : \A k \in T : n <= k
<1>1. IsWellFoundedOn(OpToRel(<, Nat), Nat)
  BY NatLessThanWellFounded
<1>2. PICK n \in T : \A k \in T : ~(<<k, n>> \in OpToRel(<, Nat))
  BY <1>1, WFMin
<1>3. \A k \in T : ~(k < n)
  BY <1>2 DEF OpToRel
<1> QED
  BY <1>3

\* f[i] is the number that the first i digits of d denote, for the i up to n.
Prefixes(d, n, f) ==
  /\ f \in [0..n -> Nat] /\ f[0] = 0
  /\ \A i \in 1..n : f[i] = 10 * f[i - 1] + d[i]

\* Every sequence of digits has such an f.
LEMMA PrefixesExist ==
  ASSUME NEW d \in Seq(0..9)
  PROVE  \E f : Prefixes(d, Len(d), f)
<1> DEFINE Missing == {n \in 0..Len(d) : ~ \E f : Prefixes(d, n, f)}
<1>1. Len(d) \in Nat /\ \A i \in 1..Len(d) : d[i] \in Nat
  OBVIOUS
<1>2. SUFFICES ASSUME Missing # {} PROVE FALSE
  BY <1>1
<1>3. PICK n \in Missing : \A k \in Missing : n <= k
  <2>1. Missing \subseteq Nat
    BY <1>1
  <2> HIDE DEF Missing
  <2> QED
    BY <1>2, <2>1, LeastNumber
<1>4. n \in 0..Len(d) /\ ~ \E f : Prefixes(d, n, f)
  BY <1>3
<1>5. n # 0
  <2>1. Prefixes(d, 0, [i \in 0..0 |-> 0])
    BY DEF Prefixes
  <2> QED
    BY <1>4, <2>1
<1>6. PICK f : Prefixes(d, n - 1, f)
  <2>1. n - 1 \in 0..Len(d) /\ ~(n - 1 >= n)
    BY <1>1, <1>4, <1>5
  <2>2. ~(n - 1 \in Missing)
    BY <1>3, <2>1
  <2> QED
    BY <2>1, <2>2
<1> DEFINE g == [i \in 0..n |-> IF i = n THEN 10 * f[n - 1] + d[n] ELSE f[i]]
<1>7. n \in 1..Len(d) /\ d[n] \in Nat /\ f[n - 1] \in Nat
  BY <1>1, <1>4, <1>5, <1>6 DEF Prefixes
<1>8. g \in [0..n -> Nat] /\ g[0] = 0
  BY <1>6, <1>7 DEF Prefixes
<1>9. ASSUME NEW i \in 1..n PROVE g[i] = 10 * g[i - 1] + d[i]
  <2>1. CASE i = n
    BY <1>7, <2>1
  <2>2. CASE i # n
    <3>1. i \in 1..(n - 1) /\ i \in 0..n /\ i - 1 \in 0..n /\ i - 1 # n
      BY <1>7, <2>2
    <3>2. g[i] = f[i] /\ g[i - 1] = f[i - 1]
      BY <2>2, <3>1
    <3> HIDE DEF g
    <3> QED
      BY <1>6, <3>1, <3>2 DEF Prefixes
  <2> QED
    BY <2>1, <2>2
<1>10. Prefixes(d, n, g)
  BY <1>8, <1>9 DEF Prefixes
<1> QED
  BY <1>4, <1>10

\* Denotes is the last value of such an f.
LEMMA DenotesLast ==
  ASSUME NEW d \in Seq(0..9)
  PROVE  \E f : Prefixes(d, Len(d), f) /\ Denotes(d) = f[Len(d)]
<1> DEFINE value[i \in 0..Len(d)] == IF i = 0 THEN 0 ELSE 10 * value[i - 1] + d[i]
           Body(h) == [i \in 0..Len(d) |-> IF i = 0 THEN 0 ELSE 10 * h[i - 1] + d[i]]
<1>1. Len(d) \in Nat /\ \A i \in 1..Len(d) : d[i] \in Nat
  OBVIOUS
<1>2. PICK f : Prefixes(d, Len(d), f)
  BY PrefixesExist
<1>3. f = Body(f)
  <2>1. \A i \in 0..Len(d) : f[i] = IF i = 0 THEN 0 ELSE 10 * f[i - 1] + d[i]
    BY <1>1, <1>2 DEF Prefixes
  <2> QED
    BY <1>2, <2>1 DEF Prefixes
<1>4. value = Body(value)
  <2>1. value = CHOOSE h : h = Body(h)
    OBVIOUS
  <2> HIDE DEF Body, value
  <2> QED
    BY <1>3, <2>1
<1>5. Denotes(d) = value[Len(d)]
  BY DEF Denotes
<1>6. value[0] = 0 /\ \A i \in 1..Len(d) : value[i] = 10 * value[i - 1] + d[i]
  <2> HIDE DEF value
  <2> QED
    BY <1>1, <1>4
<1>7. value = f
  <2> HIDE DEF value
  <2> DEFINE Differ == {i \in 0..Len(d) : value[i] # f[i]}
  <2>1. CASE Differ # {}
    <3>1. PICK i \in Differ : \A k \in Differ : i <= k
      <4>1. Differ \subseteq Nat
        BY <1>1
      <4> HIDE DEF Differ
      <4> QED
        BY <2>1, <4>1, LeastNumber
    <3>2. i \in 1..Len(d)
      BY <1>1, <1>2, <1>6, <3>1 DEF Prefixes
    <3>3. i - 1 \in 0..Len(d) /\ ~(i - 1 >= i)
      BY <1>1, <3>2
    <3>4. value[i - 1] = f[i - 1]
      BY <3>1, <3>3
    <3>5. value[i] = f[i]
      BY <1>2, <1>6, <3>2, <3>4 DEF Prefixes
    <3> QED
      BY <3>1, <3>5
  <2>2. CASE Differ = {}
    <3>1. \A i \in 0..Len(d) : value[i] = f[i]
      BY <2>2
    <3>2. value = [i \in 0..Len(d) |-> value[i]]
      <4>1. value = [i \in 0..Len(d) |-> Body(value)[i]]
        BY <1>4
      <4> HIDE DEF Body
      <4> QED
        BY <1>4, <4>1
    <3>3. f = [i \in 0..Len(d) |-> f[i]]
      BY <1>2 DEF Prefixes
    <3> HIDE DEF Differ
    <3> QED
      BY <3>1, <3>2, <3>3
  <2> QED
    BY <2>1, <2>2
<1> QED
  <2> HIDE DEF value
  <2> QED
    BY <1>2, <1>5, <1>7

\* One round of the loop over the digits: the next value, if it is within bounds.
LEMMA DigitStep ==
  ASSUME NEW v \in Nat, NEW digit \in 0..9
  PROVE  LET kept == {v} \cap (0..UINT64_MAX)
             times10 == {10 * w : w \in {w \in kept : w <= UINT64_MAX \div 10}}
         IN {w + digit : w \in {w \in times10 : w <= UINT64_MAX - digit}}
              = {10 * v + digit} \cap (0..UINT64_MAX)
<1> DEFINE kept == {v} \cap (0..UINT64_MAX)
           times10 == {10 * w : w \in {w \in kept : w <= UINT64_MAX \div 10}}
           result == {w + digit : w \in {w \in times10 : w <= UINT64_MAX - digit}}
<1>1. v <= UINT64_MAX \div 10 <=> 10 * v <= UINT64_MAX
  BY SizeAssumption DEF SizeAssumption
<1>2. CASE 10 * v + digit <= UINT64_MAX
  <2>1. v \in kept /\ v <= UINT64_MAX \div 10 /\ 10 * v <= UINT64_MAX - digit
    BY <1>1, <1>2, SizeAssumption DEF SizeAssumption
  <2>2. kept = {v} /\ times10 = {10 * v}
    BY <2>1
  <2>3. result = {10 * v + digit}
    BY <2>1, <2>2
  <2> QED
    BY <1>2, <2>3, SizeAssumption DEF SizeAssumption
<1>3. CASE ~(10 * v + digit <= UINT64_MAX)
  <2>1. \A w \in times10 : w = 10 * v
    OBVIOUS
  <2>2. \A w \in times10 : ~(w <= UINT64_MAX - digit)
    BY <1>3, <2>1, SizeAssumption DEF SizeAssumption
  <2>3. result = {}
    BY <2>2
  <2> QED
    BY <1>3, <2>3, SizeAssumption DEF SizeAssumption
<1> QED
  BY <1>2, <1>3

\* The loop computes the number that the digits denote, or fails on overflow.
LEMMA AccumulateExact ==
  ASSUME NEW d \in Seq(0..9)
  PROVE  Accumulate(d) = {Denotes(d)} \cap (0..UINT64_MAX)
<1> DEFINE upto[i \in 0..Len(d)] ==
             IF i = 0 THEN {0}
             ELSE LET times10 == {10 * v : v \in {v \in upto[i - 1] : v <= UINT64_MAX \div 10}}
                  IN {v + d[i] : v \in {v \in times10 : v <= UINT64_MAX - d[i]}}
           Round(S, digit) ==
             LET times10 == {10 * v : v \in {v \in S : v <= UINT64_MAX \div 10}}
             IN {v + digit : v \in {v \in times10 : v <= UINT64_MAX - digit}}
           Body(h) == [i \in 0..Len(d) |-> IF i = 0 THEN {0} ELSE Round(h[i - 1], d[i])]
<1>1. Len(d) \in Nat /\ \A i \in 1..Len(d) : d[i] \in 0..9
  OBVIOUS
<1>2. PICK f : Prefixes(d, Len(d), f) /\ Denotes(d) = f[Len(d)]
  BY DenotesLast
<1> DEFINE exact == [i \in 0..Len(d) |-> {f[i]} \cap (0..UINT64_MAX)]
<1>3. ASSUME NEW i \in 1..Len(d) PROVE Round(exact[i - 1], d[i]) = exact[i]
  <2>1. i - 1 \in 0..Len(d) /\ i \in 0..Len(d)
    BY <1>1
  <2>2. f[i - 1] \in Nat /\ f[i] = 10 * f[i - 1] + d[i]
    BY <1>2, <2>1 DEF Prefixes
  <2>3. Round({f[i - 1]} \cap (0..UINT64_MAX), d[i]) = {10 * f[i - 1] + d[i]} \cap (0..UINT64_MAX)
    BY <1>1, <2>2, DigitStep
  <2> HIDE DEF Round
  <2> QED
    BY <2>1, <2>2, <2>3
<1>4. exact[0] = {0}
  BY <1>1, <1>2, SizeAssumption DEF Prefixes, SizeAssumption
<1>5. exact = Body(exact)
  <2> HIDE DEF Round
  <2>1. \A i \in 0..Len(d) : exact[i] = IF i = 0 THEN {0} ELSE Round(exact[i - 1], d[i])
    <3> SUFFICES ASSUME NEW i \in 0..Len(d)
                 PROVE  exact[i] = IF i = 0 THEN {0} ELSE Round(exact[i - 1], d[i])
      OBVIOUS
    <3>1. i # 0 => i \in 1..Len(d)
      BY <1>1
    <3> HIDE DEF exact
    <3> QED
      BY <1>3, <1>4, <3>1
  <2>2. exact = [i \in 0..Len(d) |-> exact[i]]
    OBVIOUS
  <2> HIDE DEF exact
  <2> QED
    BY <2>1, <2>2
<1>6. upto = Body(upto)
  <2>1. upto = CHOOSE h : h = Body(h)
    OBVIOUS
  <2> HIDE DEF Body, upto, exact
  <2> QED
    BY <1>5, <2>1
<1>7. Accumulate(d) = upto[Len(d)]
  BY DEF Accumulate
<1>8. upto[0] = {0} /\ \A i \in 1..Len(d) : upto[i] = Round(upto[i - 1], d[i])
  <2> HIDE DEF upto, Round
  <2> QED
    BY <1>1, <1>6
<1> HIDE DEF upto, Round, Body
<1> DEFINE Differ == {i \in 0..Len(d) : upto[i] # exact[i]}
<1>9. Differ = {}
  <2> SUFFICES ASSUME Differ # {} PROVE FALSE
    OBVIOUS
  <2> HIDE DEF exact
  <2>1. PICK i \in Differ : \A k \in Differ : i <= k
    <3>1. Differ \subseteq Nat
      BY <1>1
    <3> HIDE DEF Differ
    <3> QED
      BY <3>1, LeastNumber
  <2>2. i \in 1..Len(d)
    <3>1. i \in 0..Len(d) /\ upto[i] # exact[i]
      BY <2>1
    <3>2. i # 0
      BY <1>4, <1>8, <3>1
    <3> QED
      BY <1>1, <3>1, <3>2
  <2>3. i - 1 \in 0..Len(d) /\ ~(i - 1 >= i)
    BY <1>1, <2>2
  <2>4. upto[i - 1] = exact[i - 1]
    BY <2>1, <2>3
  <2>5. upto[i] = exact[i]
    BY <1>3, <1>8, <2>2, <2>4
  <2> QED
    BY <2>1, <2>5
<1>10. Len(d) \in 0..Len(d)
  BY <1>1
<1>11. upto[Len(d)] = exact[Len(d)]
  BY <1>9, <1>10
<1> QED
  BY <1>2, <1>7, <1>10, <1>11

\* A multiplication that is tested with a division does not overflow.
LEMMA UnitStep ==
  ASSUME NEW v \in Nat, NEW m \in 1..UINT64_MAX
  PROVE  v <= UINT64_MAX \div m <=> v * m <= UINT64_MAX
<1> DEFINE q == UINT64_MAX \div m
<1>1. UINT64_MAX \in Nat /\ m \in Nat /\ m > 0
  BY SizeAssumption DEF SizeAssumption
<1>2. q \in Nat /\ q * m <= UINT64_MAX /\ UINT64_MAX < (q + 1) * m
  BY <1>1
<1> HIDE DEF q
<1>3. ASSUME v <= q PROVE v * m <= q * m
  BY <1>1, <1>2, <1>3
<1>4. ASSUME ~(v <= q) PROVE (q + 1) * m <= v * m
  BY <1>1, <1>2, <1>4
<1>5. v * m \in Nat /\ q * m \in Nat /\ (q + 1) * m \in Nat
  BY <1>1, <1>2
<1>6. v <= q <=> v * m <= UINT64_MAX
  BY <1>1, <1>2, <1>3, <1>4, <1>5
<1> QED
  BY <1>6 DEF q

\* _parse_size_bytes returns the size a text denotes, and rejects the other texts.
LEMMA ParseExact ==
  ASSUME NEW t, t.signed \in BOOLEAN, t.digits \in Seq(0..9)
  PROVE  ParseSize(t) = SizeIn(t)
<1>1. CASE t.signed \/ t.digits = <<>>
  BY <1>1 DEF ParseSize, SizeIn
<1>2. CASE ~(t.signed \/ t.digits = <<>>)
  <2> DEFINE D == Denotes(t.digits)
             M == Multiplier(t.suffix)
  <2>1. D \in Nat
    <3>1. PICK f : Prefixes(t.digits, Len(t.digits), f) /\ D = f[Len(t.digits)]
      BY DenotesLast
    <3> QED
      BY <3>1 DEF Prefixes
  <2>2. M \subseteq 1..UINT64_MAX
    BY SizeAssumption DEF Multiplier, Nothing, SizeAssumption
  <2>3. ParseSize(t) = UNION {{v * m : m \in {m \in M : v # 0 /\ v <= UINT64_MAX \div m}}
                              : v \in {D} \cap (0..UINT64_MAX)}
    BY <1>2, AccumulateExact DEF ParseSize
  <2>4. SizeIn(t) = {D * m : m \in M} \cap (1..UINT64_MAX)
    BY <1>2 DEF SizeIn
  <2> HIDE DEF D, M
  <2>5. ASSUME NEW m \in M
        PROVE  /\ D * m \in Nat /\ (D # 0 => D <= D * m /\ D * m # 0) /\ (D = 0 => D * m = 0)
               /\ D <= UINT64_MAX \div m <=> D * m <= UINT64_MAX
    <3>1. m \in 1..UINT64_MAX /\ m \in Nat /\ m >= 1
      BY <2>2, SizeAssumption DEF SizeAssumption
    <3>2. D <= UINT64_MAX \div m <=> D * m <= UINT64_MAX
      BY <2>1, <3>1, UnitStep
    <3>3. D * m \in Nat /\ (D = 0 => D * m = 0)
      BY <2>1, <3>1
    <3>4. D # 0 => D <= D * m /\ D * m # 0
      BY <2>1, <3>1
    <3> QED
      BY <3>2, <3>3, <3>4
  <2>6. ASSUME NEW s \in ParseSize(t) PROVE s \in SizeIn(t)
    <3>1. PICK m \in M : s = D * m /\ D # 0 /\ D <= UINT64_MAX \div m
      BY <2>3
    <3> QED
      BY <2>4, <2>5, <3>1, SizeAssumption DEF SizeAssumption
  <2>7. ASSUME NEW s \in SizeIn(t) PROVE s \in ParseSize(t)
    <3>1. PICK m \in M : s = D * m /\ s \in 1..UINT64_MAX
      BY <2>4
    <3>2. D \in 0..UINT64_MAX /\ D # 0 /\ D <= UINT64_MAX \div m
      BY <2>1, <2>5, <3>1, SizeAssumption DEF SizeAssumption
    <3> QED
      BY <2>3, <3>1, <3>2
  <2> QED
    BY <2>6, <2>7
<1> QED
  BY <1>1, <1>2

\* Every text a run can have satisfies the assumption of the last lemma.
LEMMA TextExact ==
  ASSUME NEW t \in Texts \cup {NoText}
  PROVE  ParseSize(t) = SizeIn(t)
<1>1. t.signed \in BOOLEAN /\ t.digits \in Seq(0..9)
  <2>1. CASE t \in Texts
    BY <2>1, SettingsAssumption DEF SettingsAssumption
  <2>2. CASE t = NoText
    <3>1. t.signed = FALSE /\ t.digits = <<>>
      BY <2>2 DEF NoText
    <3>2. <<>> \in Seq(0..9) /\ FALSE \in BOOLEAN
      OBVIOUS
    <3> QED
      BY <3>1, <3>2, Zenon
  <2> QED
    BY <2>1, <2>2
<1> QED
  BY <1>1, ParseExact

-----------------------------------------------------------------------------
(* Where the value in force comes from.  The invariant says what the field of  *)
(* offsd_args_t holds after each step of the start, as a function of the       *)
(* inputs and of the configuration the first cycle has loaded.                 *)

AfterFlags == IF argv = <<>> THEN Preset(setting) ELSE Flag(argv[Len(argv)])

Applied == {v \in FileValue : Unset(setting, AfterFlags)}
AfterFile ==
  IF Applied = {} THEN AfterFlags ELSE Stored(setting, CHOOSE v \in Applied : TRUE)

AfterFill ==
  CASE setting \in {"worker_count", "unix_path", "cache_dir"} /\ AfterFile = 0 -> Default
    [] setting = "worker_count" /\ AfterFile < 0 -> 1
    [] OTHER -> AfterFile

AtStart ==
  IF setting = "cache_dir" /\ AfterFile = 0 /\ first # {}
    THEN CHOOSE v \in first : TRUE ELSE AfterFill

Cycle ==
  IF AtStart # 0 \/ setting = "ws_port" THEN AtStart
  ELSE CASE setting \in {"max_capacity_bytes", "bootstrap_peers"} /\ cfg # {} ->
              CHOOSE v \in cfg : TRUE
         [] setting = "port" -> 0
         [] OTHER -> Default

\* At most one value is written in each place.
AtMostOne(S) == S = {} \/ \E v \in S : S = {v}

Inputs ==
  /\ setting \in Setting /\ text \in Texts \cup {NoText}
  /\ argv # <<>> => argv[Len(argv)] \in FlagValues(setting)
  /\ FileValue \subseteq Values(setting) /\ AtMostOne(FileValue)

Overrides ==
  /\ AtMostOne(pending) /\ AtMostOne(cfg) /\ AtMostOne(first)
  /\ setting = "cache_dir" => (pending \cup first) \subseteq {1, 2}
  /\ setting = "max_capacity_bytes" =>
       (pending \cup cfg) \subseteq {Double(v) : v \in SizeIn(text)}

Stages ==
  /\ pc = "flags" => field = Preset(setting)
  /\ pc = "file" => field = AfterFlags
  /\ pc = "fill" => field = AfterFile
  /\ pc = "first" =>
       field = AfterFill /\ (explicit <=> setting = "cache_dir" /\ AfterFile # 0)
  /\ pc \in {"startup", "run"} => field = AtStart
  /\ pc = "run" => in_force = Cycle

IInv == Inputs /\ Overrides /\ Stages

\* The configuration file gives at most one value, of those that may be written.
LEMMA InitInputs == Init => Inputs
<1> SUFFICES ASSUME Init PROVE Inputs
  OBVIOUS
<1>1. setting \in Setting /\ text \in Texts \cup {NoText}
  BY DEF Init
<1>2. argv # <<>> => argv[Len(argv)] \in FlagValues(setting)
  <2>1. PICK n \in 0..MaxFlags : argv \in [1..n -> FlagValues(setting)]
    BY DEF Init
  <2>2. n \in Nat
    BY <2>1, SettingsAssumption DEF SettingsAssumption
  <2>3. argv \in Seq(FlagValues(setting))
    BY <2>1, <2>2
  <2> QED
    BY <2>3
<1>3. FileValue \subseteq Values(setting) /\ AtMostOne(FileValue)
  <2>1. ConfigFile \in Optional(Contents)
    BY DEF Init, ConfigFile
  <2>2. CASE ConfigFile = {}
    BY <2>2 DEF FileValue, AtMostOne
  <2>3. ASSUME NEW f \in Contents, ConfigFile = {f}
        PROVE  FileValue \subseteq Values(setting) /\ AtMostOne(FileValue)
    <3>1. f.valid => FileValue = f.value
      BY <2>3 DEF FileValue
    <3>2. ~f.valid => FileValue = {}
      BY <2>3 DEF FileValue
    <3>3. f.valid \in BOOLEAN /\ (f.valid => f.value \in Optional(Values(setting)))
      BY DEF Contents
    <3> QED
      BY <3>1, <3>2, <3>3 DEF Optional, AtMostOne
  <2> QED
    BY <2>1, <2>2, <2>3 DEF Optional
<1> QED
  BY <1>1, <1>2, <1>3 DEF Inputs

\* The invariant holds when the process starts.
LEMMA InitIInv == Init => IInv
<1> SUFFICES ASSUME Init PROVE IInv
  OBVIOUS
<1>1. Overrides
  BY DEF Init, Overrides, AtMostOne
<1>2. Stages
  BY DEF Init, Stages
<1> QED
  BY <1>1, <1>2, InitInputs DEF IInv

\* What the operator wrote does not change, and neither does what follows from it.
LEMMA InputsKept ==
  ASSUME UNCHANGED inputs
  PROVE  /\ UNCHANGED <<setting, text, argv, FileValue, AfterFlags, AfterFile, AfterFill>>
         /\ UNCHANGED first => UNCHANGED AtStart
         /\ UNCHANGED <<first, cfg>> => UNCHANGED Cycle
         /\ Inputs => Inputs'
<1>1. UNCHANGED <<setting, argv, last_word, files, text>>
  BY DEF inputs
<1>2. UNCHANGED FileValue
  BY <1>1 DEF FileValue, ConfigFile
<1>3. UNCHANGED AfterFlags
  BY <1>1 DEF AfterFlags, Flag
<1>4. UNCHANGED AfterFile
  BY <1>1, <1>2, <1>3 DEF AfterFile, Applied
<1>5. UNCHANGED AfterFill
  BY <1>1, <1>4 DEF AfterFill
<1>6. UNCHANGED first => UNCHANGED AtStart
  BY <1>1, <1>4, <1>5 DEF AtStart
<1>7. UNCHANGED <<first, cfg>> => UNCHANGED Cycle
  BY <1>1, <1>6 DEF Cycle
<1>8. Inputs => Inputs'
  BY <1>1, <1>2 DEF Inputs
<1> QED
  BY <1>1, <1>2, <1>3, <1>4, <1>5, <1>6, <1>7, <1>8

\* A parsed size is one number, and so is the double it is staged as.
LEMMA ParsedOne ==
  ASSUME Inputs
  PROVE  /\ AtMostOne(SizeIn(text)) /\ ParseSize(text) = SizeIn(text)
         /\ AtMostOne({Double(v) : v \in SizeIn(text)})
<1>1. ParseSize(text) = SizeIn(text)
  BY TextExact DEF Inputs
<1>2. AtMostOne(Multiplier(text.suffix))
  BY DEF Multiplier, AtMostOne, Nothing
<1>3. AtMostOne(SizeIn(text))
  BY <1>1, <1>2 DEF SizeIn, AtMostOne, Nothing
<1>4. AtMostOne({Double(v) : v \in SizeIn(text)})
  BY <1>3 DEF AtMostOne
<1> QED
  BY <1>1, <1>3, <1>4

\* Every step of the start, of a reload and of the operator keeps the invariant.
LEMMA NextIInv == IInv /\ [Next]_vars => IInv'
<1> SUFFICES ASSUME IInv, [Next]_vars PROVE IInv'
  OBVIOUS
<1>1. UNCHANGED inputs
  BY DEF Next, ParseFlags, ParseFile, FillDefaults, FirstStart, Startup, Reload, StageValue,
         CacheSize, Unstage, Exit, Stopped, vars
<1>2. /\ UNCHANGED <<setting, text, argv, FileValue, AfterFlags, AfterFile, AfterFill>>
      /\ UNCHANGED first => UNCHANGED AtStart
      /\ UNCHANGED <<first, cfg>> => UNCHANGED Cycle
      /\ Inputs'
  BY <1>1, InputsKept DEF IInv
<1> USE DEF IInv, Overrides, Stages
<1>3. CASE ParseFlags
  <2>1. pc = "flags" /\ pc' \in {"file", "exit"} /\ field' = AfterFlags
    BY <1>3 DEF ParseFlags, AfterFlags
  <2> QED
    BY <1>2, <1>3, <2>1 DEF ParseFlags
<1>4. CASE ParseFile
  <2>1. pc = "file" /\ pc' \in {"fill", "exit"} /\ field' = AfterFile
    BY <1>4 DEF ParseFile, AfterFile, Applied
  <2> QED
    BY <1>2, <1>4, <2>1 DEF ParseFile
<1>5. CASE FillDefaults
  <2>1. pc = "fill" /\ pc' = "first" /\ field' = AfterFill
    BY <1>5 DEF FillDefaults, AfterFill
  <2>2. explicit' <=> setting = "cache_dir" /\ AfterFile # 0
    BY <1>5 DEF FillDefaults
  <2> QED
    BY <1>2, <1>5, <2>1, <2>2 DEF FillDefaults
<1>6. CASE FirstStart
  <2>1. pc = "first" /\ pc' = "startup" /\ first' = pending /\ cfg' = pending /\ pending' = {}
    BY <1>6 DEF FirstStart
  <2>2. field' = AtStart'
    BY <1>2, <1>6 DEF FirstStart, AtStart
  <2> QED
    BY <1>2, <2>1, <2>2 DEF AtMostOne
<1>7. CASE Startup
  <2>1. pc = "startup" /\ pc' = "run" /\ in_force' = Cycle
    BY <1>7 DEF Startup, Cycle
  <2> QED
    BY <1>2, <1>7, <2>1 DEF Startup
<1>8. CASE Reload
  BY <1>2, <1>8 DEF Reload, AtMostOne
<1>9. CASE StageValue
  <2>1. PICK v \in Values(setting) : pending' = {v}
    BY <1>9 DEF StageValue
  <2>2. setting = "cache_dir" => v \in {1, 2}
    <3>1. "cache_dir" \in Strings
      BY DEF Strings
    <3>2. Values("cache_dir") = {1, 2}
      BY <3>1 DEF Values, Strings, Ports
    <3> QED
      BY <3>2
  <2> QED
    BY <1>2, <1>9, <2>1, <2>2 DEF StageValue, AtMostOne
<1>10. CASE CacheSize
  <2>1. pending' = pending \/ pending' = {Double(v) : v \in SizeIn(text)}
    BY <1>10, ParsedOne DEF CacheSize
  <2>2. AtMostOne(pending) /\ AtMostOne({Double(v) : v \in SizeIn(text)})
    BY ParsedOne
  <2>3. AtMostOne(pending')
    BY <2>1, <2>2
  <2>4. setting # "cache_dir"
    BY <1>10 DEF CacheSize
  <2> QED
    BY <1>2, <1>10, <2>1, <2>3, <2>4 DEF CacheSize
<1>11. CASE Exit
  BY <1>2, <1>11 DEF Exit
<1>12. CASE Unstage
  BY <1>2, <1>12 DEF Unstage, AtMostOne
<1>13. CASE UNCHANGED vars
  BY <1>2, <1>13 DEF vars
<1> QED
  BY <1>3, <1>4, <1>5, <1>6, <1>7, <1>8, <1>9, <1>10, <1>11, <1>12, <1>13 DEF Next, Stopped

\* Hence it always holds.
LEMMA AlwaysIInv == Spec => []IInv
BY InitIInv, NextIInv, PTL DEF Spec

\* A flag whose value is one that survives its conversion reaches the field, and
\* nothing replaces it.
LEMMA FlagHolds ==
  ASSUME IInv, pc = "run", NEW v \in GivenFlag, Kept(v), ~Unset(setting, v)
  PROVE  in_force = v
<1>1. argv # <<>> /\ v = argv[Len(argv)] /\ v \in FlagValues(setting)
  BY DEF GivenFlag, IInv, Inputs
<1>2. v \in Int /\ v > 0
  BY <1>1, SettingsAssumption DEF SettingsAssumption, FlagValues, Values, Kept
<1>3. AfterFlags = v
  BY <1>1, <1>2 DEF AfterFlags, Flag, Kept
<1>4. AfterFile = v
  BY <1>3 DEF AfterFile, Applied
<1>5. AfterFill = v
  BY <1>2, <1>4 DEF AfterFill
<1>6. AtStart = v
  BY <1>2, <1>4, <1>5 DEF AtStart
<1> QED
  BY <1>2, <1>6 DEF IInv, Stages, Cycle

\* Without a flag the file's value fills the field, which only a preset host is not
\* free for.
LEMMA FileHolds ==
  ASSUME IInv, pc = "run", GivenFlag = {}, setting # "host", NEW v \in FileValue, Kept(v)
  PROVE  in_force = v
<1>1. AfterFlags = Preset(setting)
  BY DEF GivenFlag, AfterFlags
<1>2. Unset(setting, AfterFlags)
  BY <1>1 DEF Preset, Unset
<1>3. Applied = {v}
  BY <1>2 DEF Applied, IInv, Inputs, AtMostOne
<1>4. v \in Int /\ v > 0
  BY SettingsAssumption DEF SettingsAssumption, IInv, Inputs, Values, Kept
<1>5. AfterFile = v
  BY <1>3 DEF AfterFile, Kept
<1>6. AfterFill = v
  BY <1>4, <1>5 DEF AfterFill
<1>7. AtStart = v
  BY <1>4, <1>5, <1>6 DEF AtStart
<1> QED
  BY <1>4, <1>7 DEF IInv, Stages, Cycle

\* Without both, the field is what _run_offsd has preset.
LEMMA NothingGiven ==
  ASSUME IInv, pc = "run", GivenFlag = {}, FileValue = {}
  PROVE  /\ AfterFile = Preset(setting) /\ in_force = Cycle
         /\ Default # 0 /\ setting \in Setting
<1>1. AfterFlags = Preset(setting)
  BY DEF GivenFlag, AfterFlags
<1>2. AfterFile = Preset(setting)
  BY <1>1 DEF AfterFile, Applied
<1>3. Default # 0
  BY SettingsAssumption DEF SettingsAssumption
<1> QED
  BY <1>2, <1>3 DEF IInv, Stages, Inputs

\* Then the pending configuration has its turn.
LEMMA PendingHolds ==
  ASSUME IInv, pc = "run", GivenFlag = {}, FileValue = {}, setting \in Pendable,
         NEW v \in Loaded
  PROVE  in_force = v
<1>1. AfterFile = 0 /\ in_force = Cycle
  BY NothingGiven DEF Preset, Pendable
<1>2. CASE setting = "cache_dir"
  <2>1. first = {v} /\ v \in {1, 2}
    BY <1>2 DEF Loaded, IInv, Overrides, AtMostOne
  <2>2. AtStart = v
    BY <1>1, <1>2, <2>1 DEF AtStart
  <2> QED
    BY <1>1, <2>1, <2>2 DEF Cycle
<1>3. CASE setting \in {"max_capacity_bytes", "bootstrap_peers"}
  <2>1. cfg = {v}
    BY <1>3 DEF Loaded, IInv, Overrides, AtMostOne
  <2>2. AtStart = 0
    BY <1>1, <1>3 DEF AtStart, AfterFill
  <2> QED
    BY <1>1, <1>3, <2>1, <2>2 DEF Cycle
<1> QED
  BY <1>2, <1>3 DEF Pendable

\* A size that was staged is the one that was written, below EXACT.
LEMMA SizeHolds ==
  ASSUME IInv, pc = "run", GivenFlag = {}, FileValue = {}, setting = "max_capacity_bytes",
         Loaded # {}, NEW size \in SizeIn(text), size <= EXACT
  PROVE  in_force = size
<1>1. PICK v \in Loaded : TRUE
  OBVIOUS
<1>2. in_force = v
  BY <1>1, PendingHolds DEF Pendable
<1>3. v \in cfg /\ SizeIn(text) = {size}
  BY <1>1, ParsedOne DEF Loaded, IInv, AtMostOne
<1>4. v = Double(size)
  BY <1>3 DEF IInv, Overrides
<1> QED
  BY <1>2, <1>4 DEF Double

\* And at last the default.
LEMMA DefaultHolds ==
  ASSUME IInv, pc = "run", GivenFlag = {}, FileValue = {},
         Loaded = {} \/ setting \notin Pendable
  PROVE  in_force = IF setting = "ws_port" THEN 0 ELSE Default
<1>1. AfterFile = Preset(setting) /\ in_force = Cycle /\ Default # 0
  BY NothingGiven
<1>2. CASE setting \in {"host", "port"}
  <2>1. AtStart = Default
    BY <1>1, <1>2, SettingsAssumption DEF Preset, AtStart, AfterFill, SettingsAssumption
  <2> QED
    BY <1>1, <1>2, <2>1 DEF Cycle
<1>3. CASE setting \in {"worker_count", "unix_path", "cache_dir"}
  <2>1. AfterFill = Default
    BY <1>1, <1>3 DEF Preset, AfterFill
  <2>2. AtStart = Default
    BY <1>3, <2>1 DEF AtStart, Loaded, Pendable
  <2> QED
    BY <1>1, <1>3, <2>2 DEF Cycle
<1>4. CASE setting \notin {"host", "port", "worker_count", "unix_path", "cache_dir"}
  <2>1. AtStart = 0
    BY <1>1, <1>4 DEF Preset, AtStart, AfterFill
  <2>2. setting \in {"max_capacity_bytes", "bootstrap_peers"} => cfg = {}
    BY DEF Loaded, Pendable
  <2> QED
    BY <1>1, <1>4, <2>1, <2>2 DEF Cycle
<1> QED
  BY <1>2, <1>3, <1>4

\* In every cycle, the last flag, else the configuration file, else the pending
\* configuration, else the default is in force, and a staged size as it was written if
\* a double can hold it: for any default, any size limit and any number of flags and of
\* reloads.
THEOREM PrecedenceHolds == Spec => []Precedence
<1>1. IInv => Precedence
  BY FlagHolds, FileHolds, PendingHolds, SizeHolds, DefaultHolds DEF Precedence
<1> QED
  BY <1>1, AlwaysIInv, PTL

\* _parse_size_bytes returns exactly the size that the operator wrote and rejects every
\* other text, whatever its digits and for any table of units.
THEOREM SizeIsExact == Spec => []SizeExact
<1>1. IInv => SizeExact
  BY TextExact DEF IInv, Inputs, SizeExact
<1> QED
  BY <1>1, AlwaysIInv, PTL
=============================================================================
