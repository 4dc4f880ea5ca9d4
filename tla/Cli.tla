---------------------------------- MODULE Cli ----------------------------------
(***************************************************************************)
(* The command line of src/src/main.rs: a process reads its arguments,     *)
(* opens one store, makes one call and exits. A store is the durable map   *)
(* that KVMap says it is.                                                  *)
(***************************************************************************)
EXTENDS Integers, SequencesExt

CONSTANTS
  Words,       \* arguments that do not start with "--", but ""
  Options,     \* arguments that start with "--", but "--dir"
  DirFlag,     \* "--dir"
  Empty,       \* ""
  DefaultDir,  \* DEFAULT_DATA_DIR
  Absent,      \* no value
  NoStore,     \* the directory has not been opened yet
  MaxArgs,     \* bound: arguments after the command
  MaxRuns      \* bound: processes one after the other

Texts == Words \cup Options \cup {DirFlag, Empty}
Plains == Words \cup {Empty}
Dirs == (Texts \ {Empty}) \cup {DefaultDir}
Maps == [Plains -> Plains \cup {Absent}]
NothingStored == [k \in Plains |-> Absent]

ASSUME TextsAssumption ==
  /\ Words \cap Options = {}
  /\ {DirFlag, Empty} \cap (Words \cup Options) = {} /\ DirFlag # Empty
  /\ Absent \notin Plains /\ NoStore \notin Maps
  /\ MaxArgs \in Nat /\ MaxRuns \in Nat

(* The positionals that each command wants; it is called "delete" too.     *)
Arity == [set |-> 2, get |-> 1, del |-> 1, compact |-> 0, stats |-> 0,
          verify |-> 0]
Commands == DOMAIN Arity

VARIABLES
  stores,       \* what each directory holds
  command,      \* args[0]
  args,         \* the other arguments
  index,        \* parse_args_with_dir: the argument that comes next
  positionals,  \* the same: those that are neither options nor a path
  dir,          \* the same: the directory
  dirSeen,      \* the same: has it been given?
  phase,        \* "shell", "parse", "parsed" or "call"
  outcome,      \* how the last process ended; it exits with 0 if "done"
  before,       \* the stores when the last process began, a history
  runs          \* the processes so far

parser == <<index, positionals, dir, dirSeen>>
vars == <<stores, command, args, parser, phase, outcome, before, runs>>

Init ==
  /\ stores = [d \in Dirs |-> NoStore] /\ before = stores
  /\ command = "help" /\ args = <<>>
  /\ index = 1 /\ positionals = <<>> /\ dir = DefaultDir /\ dirSeen = FALSE
  /\ phase = "shell" /\ outcome = "done"
  /\ runs = 0

(* The process exits: in the end with 0, or with 1.                        *)
Exit(how) ==
  /\ phase' = "shell"
  /\ outcome' = how

(* run: the command is chosen by the first argument, of which help alone   *)
(* reads no others. "none" stands for no argument at all.                  *)
Run(c, a) ==
  /\ phase = "shell" /\ runs < MaxRuns
  /\ command' = c /\ args' = a
  /\ index' = 1 /\ positionals' = <<>> /\ dir' = DefaultDir /\ dirSeen' = FALSE
  /\ before' = stores
  /\ runs' = runs + 1
  /\ CASE c \in Commands -> phase' = "parse" /\ outcome' = "running"
       [] c = "help" -> Exit("done")
       [] c \in {"none", "unknown"} -> Exit("usage")
  /\ UNCHANGED stores

-----------------------------------------------------------------------------
(* parse_args_with_dir, one turn of its loop at a time *)

Reading(t) == phase = "parse" /\ index <= Len(args) /\ args[index] = t
Parsed == UNCHANGED <<stores, command, args, phase, outcome, before, runs>>
Refused == Exit("usage") /\ UNCHANGED <<stores, command, args, parser, before, runs>>

(* What must hold where "--dir" is met.                                    *)
MayGiveDir == ~dirSeen /\ index < Len(args) /\ args[index + 1] # Empty

(* The path is left in place, to be read as a positional too.              *)
ReadDir_bug ==
  /\ Reading(DirFlag)
  /\ MayGiveDir
  /\ dir' = args[index + 1] /\ dirSeen' = TRUE
  /\ index' = index + 1
  /\ UNCHANGED positionals /\ Parsed

(* Whatever follows "--dir" is its path, even if it starts with "--".      *)
ReadDir ==
  /\ Reading(DirFlag)
  /\ MayGiveDir
  /\ dir' = args[index + 1] /\ dirSeen' = TRUE
  /\ index' = index + 2
  /\ UNCHANGED positionals /\ Parsed

(* Given twice, without a path or with an empty one.                       *)
RefuseDir ==
  /\ Reading(DirFlag)
  /\ ~MayGiveDir
  /\ Refused

RefuseOption == (\E t \in Options : Reading(t)) /\ Refused

ReadPositional ==
  /\ \E t \in Plains : Reading(t) /\ positionals' = Append(positionals, t)
  /\ index' = index + 1
  /\ UNCHANGED <<dir, dirSeen>> /\ Parsed

ParseEnds ==
  /\ phase = "parse" /\ index > Len(args)
  /\ phase' = "parsed"
  /\ UNCHANGED <<stores, command, args, parser, outcome, before, runs>>

-----------------------------------------------------------------------------
(* The commands: they count the positionals, open the store and call it *)

Process == UNCHANGED <<command, args, parser, before, runs>>

(* The store is opened, and so created, before the positionals are counted. *)
RefuseCount_bug ==
  /\ phase = "parsed" /\ Len(positionals) # Arity[command]
  /\ stores' = [stores EXCEPT ![dir] = IF @ = NoStore THEN NothingStored ELSE @]
  /\ Exit("usage")
  /\ Process

RefuseCount ==
  /\ phase = "parsed" /\ Len(positionals) # Arity[command]
  /\ Exit("usage")
  /\ UNCHANGED stores /\ Process

(* Store::open creates the directory, for a command that only reads too.   *)
Opened == [stores EXCEPT ![dir] = IF @ = NoStore THEN NothingStored ELSE @]

OpenStore ==
  /\ phase = "parsed" /\ Len(positionals) = Arity[command]
  /\ stores' = Opened
  /\ phase' = "call"
  /\ UNCHANGED outcome /\ Process

OpenFails ==
  /\ phase = "parsed" /\ Len(positionals) = Arity[command]
  /\ stores' \in {stores, Opened}
  /\ Exit("failed")
  /\ Process

Calls(c) == phase = "call" /\ command = c /\ Process

Set ==
  /\ Calls("set")
  /\ stores' = [stores EXCEPT ![dir][positionals[1]] = positionals[2]]
  /\ Exit("done")

Get ==
  /\ Calls("get")
  /\ Exit(IF stores[dir][positionals[1]] = Absent THEN "not found" ELSE "done")
  /\ UNCHANGED stores

Delete ==
  /\ Calls("del")
  /\ stores' = [stores EXCEPT ![dir][positionals[1]] = Absent]
  /\ Exit("done")

Compact == Calls("compact") /\ Exit("done") /\ UNCHANGED stores
Stats == Calls("stats") /\ Exit("done") /\ UNCHANGED stores
Verify == Calls("verify") /\ Exit("done") /\ UNCHANGED stores

(* The store returns an error; a write may have reached the log all the    *)
(* same. Stats cannot fail.                                                *)
CallFails ==
  /\ phase = "call" /\ command # "stats"
  /\ \/ UNCHANGED stores
     \/ command = "set" /\ stores' = [stores EXCEPT ![dir][positionals[1]] = positionals[2]]
     \/ command = "del" /\ stores' = [stores EXCEPT ![dir][positionals[1]] = Absent]
  /\ Exit("failed")
  /\ Process

-----------------------------------------------------------------------------
Next ==
  \/ \E c \in Commands, a \in BoundedSeq(Texts, MaxArgs) : Run(c, a)
  \/ \E c \in {"none", "help", "unknown"} : Run(c, <<>>)
  \/ ReadDir \/ RefuseDir \/ RefuseOption \/ ReadPositional \/ ParseEnds
  \/ RefuseCount \/ OpenStore \/ OpenFails
  \/ Set \/ Get \/ Delete \/ Compact \/ Stats \/ Verify \/ CallFails

Spec == Init /\ [][Next]_vars

-----------------------------------------------------------------------------
(* The usage text: "<command> <positionals> [--dir PATH]", the option      *)
(* anywhere among them and at most once.                                   *)

Pair(a, i) == a[i] = DirFlag /\ a[i + 1] # Empty
Without(a, i) == SubSeq(a, 1, i - 1) \o SubSeq(a, i + 2, Len(a))

Usages ==
  {u \in {[pos |-> args, dir |-> DefaultDir]}
           \cup {[pos |-> Without(args, i), dir |-> args[i + 1]] :
                   i \in {j \in 1..(Len(args) - 1) : Pair(args, j)}} :
     ToSet(u.pos) \subseteq Plains /\ Len(u.pos) = Arity[command]}

(* A command line is served if and only if it has the form that the usage  *)
(* text gives, and then in the one way that this form allows.              *)
ServedAsUsageSays ==
  command \in Commands =>
    /\ phase = "call" => Usages = {[pos |-> positionals, dir |-> dir]}
    /\ phase = "shell" /\ outcome = "usage" => Usages = {}

(* What a process with the use u does to the stores when nothing fails.    *)
Effect(u) ==
  LET opened == [before EXCEPT ![u.dir] = IF @ = NoStore THEN NothingStored ELSE @]
  IN CASE command = "set" -> [opened EXCEPT ![u.dir][u.pos[1]] = u.pos[2]]
       [] command = "del" -> [opened EXCEPT ![u.dir][u.pos[1]] = Absent]
       [] OTHER -> opened

(* What get is to find.                                                    *)
Held(u) == Effect(u)[u.dir][u.pos[1]]

(* The exit code tells the truth: after 0 the whole effect is there, and   *)
(* get found a value that was stored; after "not found" none was; after a  *)
(* usage error no directory was touched, nor created; after a failure no   *)
(* directory but the one named was.                                        *)
ExitCodeTellsTruth ==
  phase = "shell" /\ command \in Commands /\ runs > 0 =>
    CASE outcome = "usage" -> stores = before
      [] outcome = "done" ->
           \E u \in Usages : stores = Effect(u) /\ (command = "get" => Held(u) # Absent)
      [] outcome = "not found" ->
           \E u \in Usages : stores = Effect(u) /\ command = "get" /\ Held(u) = Absent
      [] outcome = "failed" ->
           \E u \in Usages :
             /\ \A d \in Dirs \ {u.dir} : stores[d] = before[d]
             /\ stores[u.dir] \in {before[u.dir], NothingStored, Effect(u)[u.dir]}

=============================================================================
