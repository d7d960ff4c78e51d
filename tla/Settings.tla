------------------------------ MODULE Settings ------------------------------
(***************************************************************************)
(* Where a setting of offsd comes from: the presets of _run_offsd, the     *)
(* flags, the configuration file, the pending configuration and the        *)
(* defaults, in the order in which src/offsd/main.c lets them replace each *)
(* other, over the first start and the in-place restarts of one process.   *)
(* `offs cache size` fills the pending configuration (SizeText).           *)
(*                                                                         *)
(* One behaviour follows one setting.  A value is a number, 0 stands for 0 *)
(* and for NULL, and what may be missing is a set with at most one member. *)
(***************************************************************************)
EXTENDS SizeText

CONSTANTS
  Default,        \* the default of a setting that has one, 23402 for the port
  PORTS,          \* 2^16: ports are uint16_t
  EabfFloor,      \* 64000
  EXACT,          \* 2^53: the last number below which a double is exact
  Texts,          \* arguments of `offs cache size`
  MaxFlags,       \* bound: times the flag of the setting is given
  MaxReloads      \* bound: in-place restarts

ASSUME SettingsAssumption ==
  /\ {Default, EabfFloor, EXACT, MaxFlags, MaxReloads} \subseteq Nat /\ EXACT > 0
  /\ Default > 2 /\ PORTS \in Nat /\ PORTS > Default
  /\ \A t \in Texts : t.signed \in BOOLEAN /\ t.digits \in Seq(0..9)

Strings == {"host", "unix_path", "cache_dir", "bootstrap_peers", "api_key"}
Ports == {"port", "ws_port"}
Setting == Strings \cup Ports \cup {"max_capacity_bytes", "worker_count", "eabf_base_ttl_ms"}

\* What an operator may write for a setting.
Values(s) ==
  CASE s \in Strings -> {1, 2}
    [] s \in Ports -> {0, 1, Default, PORTS + 1}
    [] s = "worker_count" -> {-1, 0, 1, 2}
    [] OTHER -> {0, 1, 2}
FlagValues(s) == IF s = "eabf_base_ttl_ms" THEN {} ELSE Values(s)
NoText == [signed |-> FALSE, digits |-> <<>>, suffix |-> NoSuffix]
Optional(S) == {{}} \cup {{v} : v \in S}

VARIABLES
  setting,
  argv,         \* the values its flag is given, in order
  last_word,    \* what the flags end with: nothing, --help or an unknown option
  files,        \* the file of --config, if given, and the fallback file
  text,         \* what the operator writes after `offs cache size`
  pc,           \* "flags", "file", "fill", "first", "startup", "run" or "exit"
  field,        \* the field of offsd_args_t
  explicit,     \* explicit_cache_dir: flag or file has set cache_dir
  pending,      \* the setting in the pending configuration
  cfg,          \* the setting in the configuration loaded for this cycle
  first,        \* the one loaded for the first cycle
  in_force,     \* what the cycle runs with
  reloads

inputs == <<setting, argv, last_word, files, text>>
vars == <<inputs, pc, field, explicit, pending, cfg, first, in_force, reloads>>

\* A file may have the setting, lack it, or be one _parse_config_file refuses.
Contents == [value : Optional(Values(setting)), valid : {TRUE}] \cup [value : {{}}, valid : {FALSE}]

\* _run_offsd before it parses: host, port and the QUIC port are preset.
Preset(s) == IF s \in {"host", "port"} THEN Default ELSE 0

Init ==
  /\ setting \in Setting
  /\ argv \in UNION {[1..n -> FlagValues(setting)] : n \in 0..MaxFlags}
  /\ last_word \in {"none", "--help", "unknown"}
  /\ files \in [explicit : Optional(Contents), fallback : Optional(Contents)]
  /\ text \in IF setting = "max_capacity_bytes" THEN Texts ELSE {NoText}
  /\ pc = "flags" /\ field = Preset(setting) /\ explicit = FALSE
  /\ pending = {} /\ cfg = {} /\ first = {} /\ in_force = 0 /\ reloads = 0

-----------------------------------------------------------------------------
(* _parse_args and _parse_config_file *)

Stored(s, v) == IF s \in Ports THEN v % PORTS ELSE v

\* A flag replaces what the field holds; a negative worker count becomes 0.
Flag(v) ==
  IF setting = "worker_count" /\ v < 0 THEN 0 ELSE Stored(setting, v)

\* The flags in order: the last one stays.  --help ends with exit status 0 and an
\* unknown option with 1, before any file is read.
ParseFlags ==
  /\ pc = "flags"
  /\ field' = IF argv = <<>> THEN field ELSE Flag(argv[Len(argv)])
  /\ pc' = IF last_word = "none" THEN "file" ELSE "exit"
  /\ UNCHANGED <<inputs, explicit, pending, cfg, first, in_force, reloads>>

\* The file that is read: the one of --config, else the fallback if it is there.
ConfigFile == IF files.explicit # {} THEN files.explicit ELSE files.fallback
FileValue == UNION {f.value : f \in {f \in ConfigFile : f.valid}}

\* The file fills a field that is still NULL or 0, and the port while it is 23402.
Unset(s, held) == held = (IF s = "port" THEN Default ELSE 0)

ParseFile ==
  LET value == {v \in FileValue : Unset(setting, field)}
      refused == \/ \E f \in ConfigFile : ~f.valid
                 \/ setting = "eabf_base_ttl_ms" /\ \E v \in value : v < EabfFloor
  IN
  /\ pc = "file"
  /\ field' = IF value = {} THEN field ELSE Stored(setting, CHOOSE v \in value : TRUE)
  /\ pc' = IF refused THEN "exit" ELSE "fill"
  /\ UNCHANGED <<inputs, explicit, pending, cfg, first, in_force, reloads>>

\* _parse_args ends with the worker count and the socket path, _run_offsd goes on
\* with the directories.
FillDefaults ==
  /\ pc = "fill" /\ pc' = "first"
  /\ explicit' = (setting = "cache_dir" /\ field # 0)
  /\ field' = CASE setting \in {"worker_count", "unix_path", "cache_dir"} /\ field = 0 -> Default
                [] setting = "worker_count" /\ field < 0 -> 1
                [] OTHER -> field
  /\ UNCHANGED <<inputs, pending, cfg, first, in_force, reloads>>

-----------------------------------------------------------------------------
(* The cycles of _run_offsd *)

\* _load_pending_override takes the pending configuration, once.  On the first
\* start, and only then, it may replace the default cache directory.
FirstStart ==
  /\ pc = "first" /\ pc' = "startup"
  /\ cfg' = pending /\ first' = pending /\ pending' = {}
  /\ field' = IF setting = "cache_dir" /\ ~explicit /\ pending # {}
                THEN CHOOSE v \in pending : TRUE ELSE field
  /\ UNCHANGED <<inputs, explicit, in_force, reloads>>

\* A plausible bug: the pending configuration has the last word.
StartupPendingWins ==
  /\ pc = "startup" /\ pc' = "run"
  /\ in_force' = IF setting \in {"max_capacity_bytes", "bootstrap_peers"} /\ cfg # {}
                   THEN CHOOSE v \in cfg : TRUE
                 ELSE IF field = 0 /\ setting # "ws_port" THEN Default ELSE field
  /\ UNCHANGED <<inputs, field, explicit, pending, cfg, first, reloads>>

\* _startup: the loaded configuration or the defaults, then what the flags and the
\* file have set.  The API key is the one they have set or a random one.
Startup ==
  /\ pc = "startup" /\ pc' = "run"
  /\ in_force' =
       IF field # 0 \/ setting = "ws_port" THEN field
       ELSE CASE setting \in {"max_capacity_bytes", "bootstrap_peers"} /\ cfg # {} ->
                   CHOOSE v \in cfg : TRUE
              [] setting = "port" -> 0
              [] OTHER -> Default
  /\ UNCHANGED <<inputs, field, explicit, pending, cfg, first, reloads>>

\* A reload: _shutdown, and the pending configuration is loaded for the next cycle.
\* It may have been staged for another setting only.
Reload ==
  /\ pc = "run" /\ reloads < MaxReloads
  /\ reloads' = reloads + 1 /\ pc' = "startup"
  /\ cfg' = pending /\ pending' = {}
  /\ UNCHANGED <<inputs, field, explicit, first, in_force>>

Staged ==
  {"cache_dir", "bootstrap_peers", "api_key", "port", "ws_port", "worker_count",
   "max_capacity_bytes"}

\* A setting is staged by `offs cache move` or `offs config set` (http_port and
\* scheduler_thread_count are its names for the port and the worker count) ...
StageValue ==
  /\ pc \in {"flags", "run"} /\ setting \in Staged \ {"max_capacity_bytes"}
  /\ \E v \in Values(setting) \cap Nat : pending' = {v}
  /\ UNCHANGED <<inputs, pc, field, explicit, cfg, first, in_force, reloads>>

\* (double)value in _stage_number: the nearest double, whose distance to the next one
\* doubles at EXACT and at every doubling of it; a tie goes to the even one.
Double(v) ==
  IF v <= EXACT THEN v
  ELSE LET unit == CHOOSE u \in {2^k : k \in 1..(UINT64_MAX \div EXACT)} :
                     EXACT * (u \div 2) < v /\ v <= EXACT * u
           q == v \div unit
           rest == 2 * (v % unit)
       IN unit * IF rest < unit \/ (rest = unit /\ q % 2 = 0) THEN q ELSE q + 1

\* ... or by _cmd_cache_size, when the text denotes a size.
CacheSize ==
  /\ pc \in {"flags", "run"} /\ setting = "max_capacity_bytes"
  /\ pending' = IF ParseSize(text) = {} THEN pending ELSE {Double(v) : v \in ParseSize(text)}
  /\ UNCHANGED <<inputs, pc, field, explicit, cfg, first, in_force, reloads>>

\* `offs config remove`, or the rollback of `offs cache move`, stages a null.
Unstage ==
  /\ pc \in {"flags", "run"} /\ setting \in Staged
  /\ pending' = {}
  /\ UNCHANGED <<inputs, pc, field, explicit, cfg, first, in_force, reloads>>

Exit ==
  /\ pc = "run" /\ pc' = "exit"
  /\ UNCHANGED <<inputs, field, explicit, pending, cfg, first, in_force, reloads>>

Stopped == pc = "exit" /\ UNCHANGED vars

Next ==
  \/ ParseFlags \/ ParseFile \/ FillDefaults \/ FirstStart \/ Startup \/ Reload
  \/ StageValue \/ CacheSize \/ Unstage \/ Exit \/ Stopped

Spec == Init /\ [][Next]_vars

-----------------------------------------------------------------------------
(* Properties *)

TypeOK ==
  /\ setting \in Setting /\ text \in Texts \cup {NoText} /\ argv \in Seq(FlagValues(setting))
  /\ pc \in {"flags", "file", "fill", "first", "startup", "run", "exit"}
  /\ field \in -1..PORTS /\ explicit \in BOOLEAN /\ in_force \in -1..(UINT64_MAX + 1)
  /\ \A S \in {pending, cfg, first} : S \subseteq 0..(UINT64_MAX + 1) /\ Cardinality(S) <= 1
  /\ reloads \in 0..MaxReloads

\* Whether a value written for the setting survives its conversion, and is not the
\* one _parse_config_file takes for "not set".
Kept(v) == Stored(setting, v) = v /\ v > 0
GivenFlag == IF argv = <<>> THEN {} ELSE {argv[Len(argv)]}
Loaded == IF setting = "cache_dir" THEN first ELSE cfg
Pendable == {"max_capacity_bytes", "bootstrap_peers", "cache_dir"}

\* In every cycle the last flag is in force; without a flag the value in the
\* configuration file is; without both what was pending when the cycle began (for
\* the cache directory, when the process began); without all three the default.
\* A size that `offs cache size` staged is then in force as it was written, if a
\* double can hold it.  The exceptions are the ones the code has: values that read
\* as "not set", a host in the file, which the preset host keeps out, and the
\* pending API key, ports and worker count, which _startup does not look at.
Precedence ==
  pc = "run" =>
    /\ \A v \in GivenFlag : Kept(v) /\ ~Unset(setting, v) => in_force = v
    /\ GivenFlag = {} /\ setting # "host" =>
         \A v \in FileValue : Kept(v) => in_force = v
    /\ GivenFlag = {} /\ FileValue = {} /\ setting \in Pendable =>
         \A v \in Loaded : in_force = v
    /\ GivenFlag = {} /\ FileValue = {} /\ setting = "max_capacity_bytes" /\ Loaded # {} =>
         \A size \in SizeIn(text) : size <= EXACT => in_force = size
    /\ GivenFlag = {} /\ FileValue = {} /\ (Loaded = {} \/ setting \notin Pendable) =>
         in_force = IF setting = "ws_port" THEN 0 ELSE Default

\* _parse_size_bytes "Rejects 0, signs, empty input, unknown/trailing text, and
\* overflow" and nothing else, and what it accepts is the number that is written.
SizeExact == ParseSize(text) = SizeIn(text)

-----------------------------------------------------------------------------
(* What the repository says of the code and the code does not always do; the *)
(* README names the circumstances.                                           *)

\* _run_offsd: "CLI flags still override values from the file (config parsing only
\* fills fields the flags left NULL)".
FlagsOverrideFile ==
  pc = "run" => \A v \in GivenFlag : v \in Values(setting) /\ v >= 0 /\ v < PORTS =>
    in_force = v \/ FileValue = {}

\* The [network] section of the configuration file has a host.
FileHostApplies ==
  pc = "run" /\ setting = "host" /\ GivenFlag = {} => \A v \in FileValue : in_force = v

\* `offs config set-auth`: "Set api_key_hash to a pre-hashed bcrypt value", which
\* "only take[s] effect after a daemon restart".
PendingKeyApplies ==
  pc = "run" /\ setting = "api_key" /\ field = 0 => \A v \in cfg : in_force = v

\* `offs config`: "Staged changes ... only take effect after a daemon restart", and
\* scheduler_thread_count, http_port and ws_port are among the settable fields.
PendingNumberApplies ==
  pc = "run" /\ setting \in {"port", "ws_port", "worker_count"} /\ GivenFlag = {} /\ FileValue = {}
    => \A v \in cfg : in_force = v

\* L10N_CACHE_SIZE_STAGED prints the size that was written.
StagedSizeExact ==
  pc = "run" /\ setting = "max_capacity_bytes" /\ GivenFlag = {} /\ FileValue = {} /\ cfg # {}
    => \A size \in SizeIn(text) : in_force = size

\* _get_worker_count: "Minimum 2 ... A single worker deadlocks those round-trips".
TwoWorkers == pc = "run" /\ setting = "worker_count" => in_force >= 2
=============================================================================
