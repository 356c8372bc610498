---------------------------- MODULE TerminalOpener ----------------------------
(***************************************************************************)
(* agent/skills/core/terminal-opener/scripts/open-terminal.js: the parsing *)
(* of a command line, the launch plan, and its launch: a probe of the      *)
(* terminal, its multiplexer, and a detached process when that fails.      *)
(*                                                                         *)
(* External: wezterm, which may be missing, fail, or not answer within the *)
(* ten seconds of a spawnSync; the launcher cannot see whether a window    *)
(* was opened by a command it killed.                                      *)
(*                                                                         *)
(* Abstracted: the words of a command line, of which Words has one of each *)
(* kind: an executable, a text with spaces, an absolute directory and two  *)
(* names of terminals.  --json and the texts printed are left out.         *)
(***************************************************************************)
EXTENDS Naturals, Sequences, SequencesExt

CONSTANTS None, MaxWords  \* bound: words of a command line

Flags == {"--recover", "--detect", "--launch", "--dry-run", "--help"}
Valued == {"--terminal", "--cwd"}
Words == {"cmd", "cmd arg", "/dir", "wezterm", "other"}
Tokens == Flags \cup Valued \cup Words \cup {"--"}

VARIABLES
  args,     \* process.argv
  at,       \* the index of the parse
  options,  \* what was parsed
  step,     \* what the launcher does next
  started,  \* the processes that were started: how, and with which arguments
  pending,  \* the error event of a detached process is to come
  lost,     \* history: the multiplexer was killed by the timer
  exit      \* exit status

vars == <<args, at, options, step, started, pending, lost, exit>>

Options ==
  [terminal: Tokens, cwd: Tokens, set: SUBSET Flags, dryRun: BOOLEAN,
   executable: Tokens \cup {None}, argv: Seq(Tokens)]

Initial ==
  [terminal |-> "wezterm", cwd |-> "/dir", set |-> {}, dryRun |-> TRUE, executable |-> None, argv |-> <<>>]

Strategies == {"mux", "detached-recover", "detached-fallback"}

TypeOK ==
  /\ args \in Seq(Tokens) /\ at \in 1..MaxWords + 2 /\ options \in Options
  /\ step \in {"parse", "detect", "launch", "mux", "detach", "done"}
  /\ started \in Seq([how: Strategies, command: Seq(Tokens)])
  /\ pending \in BOOLEAN /\ lost \in BOOLEAN /\ exit \in {0, 1}

Init ==
  /\ args \in BoundedSeq(Tokens, MaxWords) /\ at = 1 /\ options = Initial
  /\ step = "parse" /\ started = <<>> /\ pending = FALSE /\ lost = FALSE /\ exit = 0

Fails == step' = "done" /\ exit' = 1
Ends == step' = "done" /\ exit' = exit
-----------------------------------------------------------------------------
(* parseArgs.                                                              *)

Option(a) == a \in Flags \cup Valued \cup {"--"}

HasValue == at < Len(args) /\ ~Option(args[at + 1])

(* -- ends the options: an executable follows, and its own arguments. *)
EndOfOptions ==
  /\ args[at] = "--" /\ at' = Len(args) + 1
  /\ options' = [options EXCEPT !.executable = IF at < Len(args) THEN args[at + 1] ELSE None,
                                !.argv = SubSeq(args, at + 2, Len(args))]
  /\ UNCHANGED <<step, exit>>

ValueOption ==
  /\ args[at] \in Valued
  /\ IF HasValue
       THEN /\ options' = IF args[at] = "--cwd" THEN [options EXCEPT !.cwd = args[at + 1]]
                          ELSE [options EXCEPT !.terminal = args[at + 1]]
            /\ at' = at + 2 /\ UNCHANGED <<step, exit>>
       ELSE Fails /\ UNCHANGED <<options, at>>

FlagOption ==
  /\ args[at] \in Flags /\ at' = at + 1
  /\ options' = [options EXCEPT !.set = @ \cup {args[at]},
                                !.dryRun = CASE args[at] = "--launch" -> FALSE
                                             [] args[at] = "--dry-run" -> TRUE [] OTHER -> @]
  /\ UNCHANGED <<step, exit>>

UnknownOption == ~Option(args[at]) /\ Fails /\ UNCHANGED <<options, at>>

Parse ==
  /\ step = "parse" /\ at <= Len(args)
  /\ EndOfOptions \/ ValueOption \/ FlagOption \/ UnknownOption
  /\ UNCHANGED <<args, started, pending, lost>>

ValidTerminalName(w) == w \in {"cmd", "wezterm", "other"}
ValidCwd(w) == w = "/dir"
ValidExecutable(w) == w # "cmd arg"

(* The checks after the loop. *)
Valid ==
  /\ ~({"--launch", "--dry-run"} \subseteq options.set)
  /\ ValidTerminalName(options.terminal) /\ ValidCwd(options.cwd)
  /\ options.executable = None => options.set \cap {"--help", "--detect"} # {}
  /\ options.executable # None => ValidExecutable(options.executable)

Bug_LaunchFirst ==
  IF "--launch" \in options.set THEN "launch" ELSE IF "--detect" \in options.set THEN "detect" ELSE "done"

(* main: help before detection, detection before the plan and its launch. *)
Chosen ==
  IF "--help" \in options.set THEN "done"
  ELSE IF "--detect" \in options.set THEN "detect" ELSE IF options.dryRun THEN "done" ELSE "launch"

Validate ==
  /\ step = "parse" /\ at > Len(args)
  /\ IF Valid THEN step' = Chosen /\ exit' = exit ELSE Fails
  /\ UNCHANGED <<args, at, options, started, pending, lost>>
-----------------------------------------------------------------------------
(* The plan, the probe and the launch.                                     *)

Supported == options.terminal = "wezterm"

Recovers == "--recover" \in options.set

(* What the terminal is to run, of buildLaunchPlan. *)
PlannedCommand == <<options.executable>> \o options.argv

(* wezterm --version: missing, failing or not answering, or there. *)
Probe ==
  /\ step \in {"detect", "launch"}
  /\ \/ Fails
     \/ /\ Supported /\ exit' = exit
        /\ step' = IF step = "detect" THEN "done" ELSE IF Recovers THEN "detach" ELSE "mux"
  /\ UNCHANGED <<args, at, options, started, pending, lost>>

Starts(how) == started' = Append(started, [how |-> how, command |-> PlannedCommand])

(* wezterm cli spawn: it starts the command, or fails; or the timer kills  *)
(* it, before or after the command was started.                            *)
Mux ==
  /\ step = "mux"
  /\ \/ Starts("mux") /\ Ends /\ UNCHANGED lost
     \/ UNCHANGED <<started, lost, exit>> /\ step' = "detach"
     \/ Starts("mux") /\ lost' = TRUE /\ step' = "detach" /\ UNCHANGED exit
  /\ UNCHANGED <<args, at, options, pending>>

(* spawn throws; or the process starts; or its error event is to come. *)
Detach ==
  /\ step = "detach"
  /\ \/ Fails /\ UNCHANGED <<started, pending>>
     \/ Starts(IF Recovers THEN "detached-recover" ELSE "detached-fallback") /\ Ends /\ UNCHANGED pending
     \/ Ends /\ pending' = TRUE /\ UNCHANGED started
  /\ UNCHANGED <<args, at, options, lost>>

Bug_ErrorLost == exit

(* reportDetachedError *)
AfterError == 1

ReportDetachedError ==
  /\ step = "done" /\ pending /\ pending' = FALSE /\ exit' = AfterError
  /\ UNCHANGED <<args, at, options, step, started, lost>>

Next == Parse \/ Validate \/ Probe \/ Mux \/ Detach \/ ReportDetachedError
-----------------------------------------------------------------------------
(* Properties.                                                             *)

Over == step = "done" /\ ~pending

(* The words before the first --. *)
Given == {args[i] : i \in {j \in 1..Len(args) : \A k \in 1..j : args[k] # "--"}}

(* A process is started only if --launch was given before --, and no       *)
(* option that asks for something else; it runs the words after --, as     *)
(* they are; in recovery, the multiplexer has no part (SKILL.md: the       *)
(* default is a plan that launches nothing).                               *)
LaunchedAsAsked ==
  started # <<>> =>
    /\ "--launch" \in Given /\ Given \cap {"--help", "--detect", "--dry-run"} = {}
    /\ \E i \in 1..Len(args) :
         /\ args[i] = "--" /\ \A k \in 1..i - 1 : args[k] # "--"
         /\ \A j \in 1..Len(started) : started[j].command = SubSeq(args, i + 1, Len(args))
    /\ "--recover" \in Given => \A j \in 1..Len(started) : started[j].how = "detached-recover"

(* A launch that ends with status 0 started a process, one that ends with  *)
(* another status did not, and none starts the command twice, unless the   *)
(* multiplexer was killed before it answered (launch and its fallback).    *)
LaunchIsReported ==
  Over /\ step # "parse" /\ ~lost =>
    /\ exit = 0 /\ "--launch" \in Given /\ Given \cap {"--help", "--detect"} = {} => started # <<>>
    /\ exit = 1 => started = <<>>
    /\ Len(started) <= 1
=============================================================================
