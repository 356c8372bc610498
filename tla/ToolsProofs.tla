------------------------------ MODULE ToolsProofs ------------------------------
(***************************************************************************)
(* What the tools of a runtime promise, for any number of clients, calls,  *)
(* skills, users and processes, command lines of any length, and any       *)
(* bounds.                                                                 *)
(*                                                                         *)
(* A part runs by itself, so each has an inductive invariant of its own:   *)
(* LinksInv and the like hold while the part is the one that runs.         *)
(***************************************************************************)
EXTENDS MCTools, FiniteSetTheorems, SequenceTheorems, TLAPS

(***************************************************************************)
(* The terminal opener.                                                    *)
(***************************************************************************)

(* The options were read from the words before i.                          *)
Scanned(i) ==
  /\ i \in 1..Len(args) + 1 /\ \A k \in 1..i - 1 : args[k] # "--"
  /\ options.set = O!Flags \cap {args[k] : k \in 1..i - 1}
  /\ \/ at = i /\ options.executable = None
     \/ /\ i <= Len(args) /\ args[i] = "--" /\ at = Len(args) + 1
        /\ options.executable = IF i < Len(args) THEN args[i + 1] ELSE None
        /\ options.argv = SubSeq(args, i + 2, Len(args))

(* The last of --launch and --dry-run is in force.                         *)
DryRunIsSet ==
  /\ ~options.dryRun => "--launch" \in options.set
  /\ "--launch" \in options.set /\ options.dryRun => "--dry-run" \in options.set

Chose(what) == at > Len(args) /\ O!Valid /\ O!Chosen = what

Quietly == exit = 0 /\ started = <<>> /\ ~pending /\ ~lost

(* How far a launch is, and what it did on the way.                        *)
Stages ==
  /\ opening = "parse" => Quietly
  /\ opening = "detect" => Quietly /\ Chose("detect")
  /\ opening \in {"launch", "mux"} => Quietly /\ Chose("launch")
  /\ opening = "mux" => ~O!Recovers
  /\ opening = "detach" => Chose("launch") /\ exit = 0 /\ ~pending /\ (lost \/ started = <<>>)
  /\ started # <<>> \/ pending => Chose("launch")
  /\ opening = "done" /\ Quietly => at > Len(args) /\ O!Valid /\ O!Chosen # "launch"
  /\ opening = "done" /\ ~lost => (exit = 1 \/ pending => started = <<>>) /\ Len(started) <= 1

StartsAsPlanned ==
  \A j \in 1..Len(started) :
    started[j].command = O!PlannedCommand /\ (O!Recovers => started[j].how = "detached-recover")

OpenerInv ==
  /\ O!TypeOK /\ Len(args) <= MaxWords
  /\ \E i \in 1..Len(args) + 1 : Scanned(i)
  /\ DryRunIsSet /\ Stages /\ StartsAsPlanned

(* The words after the one that follows -- are words.                      *)
LEMMA TailIsWords ==
  ASSUME NEW s \in Seq(O!Tokens), NEW m \in 1..Len(s)
  PROVE  SubSeq(s, m + 2, Len(s)) \in Seq(O!Tokens)
  <1>1. CASE m < Len(s)
    <2>1. m + 2 \in 1..Len(s) + 1 /\ Len(s) \in (m + 2) - 1..Len(s)
      BY <1>1
    <2> QED BY <2>1, SubSeqProperties
  <1>2. CASE m = Len(s)
    <2>1. SubSeq(s, m + 2, Len(s)) = <<>>
      BY <1>2
    <2> QED BY <2>1
  <1> QED BY <1>1, <1>2

LEMMA OneAndTheRest ==
  ASSUME NEW s \in Seq(O!Tokens), NEW m \in 1..Len(s), m < Len(s)
  PROVE  <<s[m + 1]>> \o SubSeq(s, m + 2, Len(s)) = SubSeq(s, m + 1, Len(s))
  <1> DEFINE tail == SubSeq(s, m + 2, Len(s))
             all == SubSeq(s, m + 1, Len(s))
  <1>1. /\ tail \in Seq(O!Tokens) /\ Len(tail) = Len(s) - m - 1 /\ \A i \in 1..Len(tail) : tail[i] = s[m + 1 + i]
    <2>1. m + 2 \in 1..Len(s) + 1 /\ Len(s) \in (m + 2) - 1..Len(s)
      OBVIOUS
    <2>2. tail \in Seq(O!Tokens) /\ Len(tail) = Len(s) - (m + 2) + 1 /\ \A i \in 1..Len(s) - (m + 2) + 1 : tail[i] = s[(m + 2) + i - 1]
      BY <2>1, SubSeqProperties
    <2> QED BY <2>2
  <1>2. /\ all \in Seq(O!Tokens) /\ Len(all) = Len(s) - m /\ \A i \in 1..Len(all) : all[i] = s[m + i]
    <2>1. m + 1 \in 1..Len(s) + 1 /\ Len(s) \in (m + 1) - 1..Len(s)
      OBVIOUS
    <2>2. all \in Seq(O!Tokens) /\ Len(all) = Len(s) - (m + 1) + 1 /\ \A i \in 1..Len(s) - (m + 1) + 1 : all[i] = s[(m + 1) + i - 1]
      BY <2>1, SubSeqProperties
    <2> QED BY <2>2
  <1> HIDE DEF tail, all
  <1>3. <<s[m + 1]>> \in Seq(O!Tokens) /\ Len(<<s[m + 1]>>) = 1 /\ <<s[m + 1]>>[1] = s[m + 1]
    OBVIOUS
  <1>4. <<s[m + 1]>> \o tail = all
    <2>1. /\ <<s[m + 1]>> \o tail \in Seq(O!Tokens) /\ Len(<<s[m + 1]>> \o tail) = Len(s) - m
          /\ \A i \in 1..Len(s) - m : (<<s[m + 1]>> \o tail)[i] = IF i <= 1 THEN s[m + 1] ELSE tail[i - 1]
      BY <1>1, <1>3, ConcatProperties
    <2>2. \A i \in 1..Len(s) - m : (<<s[m + 1]>> \o tail)[i] = all[i]
      <3> SUFFICES ASSUME NEW i \in 1..Len(s) - m PROVE (<<s[m + 1]>> \o tail)[i] = all[i]
        OBVIOUS
      <3>1. CASE i = 1
        BY <3>1, <2>1, <1>2
      <3>2. CASE i # 1
        <4>1. i - 1 \in 1..Len(tail) /\ m + 1 + (i - 1) = m + i
          BY <3>2, <1>1
        <4> QED BY <3>2, <4>1, <2>1, <1>1, <1>2
      <3> QED BY <3>1, <3>2
    <2> QED BY <2>1, <2>2, <1>2, SeqEqual
  <1> QED BY <1>4 DEF tail, all

LEMMA OpenerFacts ==
  ASSUME OpenerInv
  PROVE  /\ args \in Seq(O!Tokens) /\ Len(args) \in Nat /\ Len(args) <= MaxWords /\ at \in 1..MaxWords + 2
         /\ options \in O!Options /\ options.set \in SUBSET O!Flags /\ options.dryRun \in BOOLEAN
         /\ started \in Seq([how: O!Strategies, command: Seq(O!Tokens)])
         /\ \A k \in 1..Len(args) : args[k] \in O!Tokens
  BY DEF OpenerInv, O!TypeOK, O!Options

LEMMA OpenerInit == O!Init => OpenerInv
  <1> SUFFICES ASSUME O!Init PROVE OpenerInv
    OBVIOUS
  <1>1. args \in Seq(O!Tokens) /\ Len(args) <= MaxWords
    <2>1. PICK m \in 0..MaxWords : args \in [1..m -> O!Tokens]
      BY DEF O!Init, O!BoundedSeq, O!SeqOf
    <2> QED BY <2>1
  <1>2. O!Initial \in O!Options
    BY DEF O!Initial, O!Options, O!Tokens, O!Words, O!Flags, O!Valued
  <1>3. /\ at = 1 /\ options = O!Initial /\ opening = "parse" /\ started = <<>> /\ ~pending /\ ~lost /\ exit = 0
        /\ pending \in BOOLEAN /\ lost \in BOOLEAN
    BY DEF O!Init
  <1>4. O!TypeOK
    BY <1>1, <1>2, <1>3, BoundsAssumption DEF O!TypeOK
  <1>5. Scanned(1) /\ 1 \in 1..Len(args) + 1
    BY <1>1, <1>3 DEF Scanned, O!Initial
  <1>6. DryRunIsSet /\ Stages /\ StartsAsPlanned
    BY <1>3 DEF DryRunIsSet, Stages, StartsAsPlanned, Quietly, O!Initial
  <1> QED BY <1>1, <1>4, <1>5, <1>6 DEF OpenerInv

(* While words are read, nothing else happens; the read may fail.          *)
LEMMA ParseStages ==
  ASSUME OpenerInv, opening = "parse", UNCHANGED <<started, pending, lost>>,
         \/ UNCHANGED <<opening, exit>>
         \/ opening' = "done" /\ exit' = 1
  PROVE  Stages' /\ StartsAsPlanned' /\ opening' \in {"parse", "done"} /\ exit' \in {0, 1}
  <1>1. Quietly
    BY DEF OpenerInv, Stages
  <1>2. Stages'
    BY <1>1 DEF Stages, Quietly
  <1>3. StartsAsPlanned'
    BY <1>1 DEF StartsAsPlanned, Quietly
  <1> QED BY <1>1, <1>2, <1>3 DEF Quietly

LEMMA ParseFails ==
  ASSUME OpenerInv, opening = "parse", O!Fails, UNCHANGED <<args, at, options, started, pending, lost>>
  PROVE  OpenerInv'
  <1>1. Stages' /\ StartsAsPlanned'
    BY ParseStages DEF O!Fails
  <1>2. O!TypeOK'
    BY DEF OpenerInv, O!TypeOK, O!Fails
  <1>3. (\E i \in 1..Len(args) + 1 : Scanned(i))' /\ DryRunIsSet'
    BY DEF OpenerInv, Scanned, DryRunIsSet
  <1> QED BY <1>1, <1>2, <1>3 DEF OpenerInv

(* What the words are is not read before --.                               *)
LEMMA ReadingOn ==
  ASSUME OpenerInv, opening = "parse", at <= Len(args)
  PROVE  /\ at \in 1..Len(args) /\ \A k \in 1..at - 1 : args[k] # "--"
         /\ options.set = O!Flags \cap {args[k] : k \in 1..at - 1} /\ options.executable = None
  <1>1. PICK i \in 1..Len(args) + 1 : Scanned(i)
    BY DEF OpenerInv
  <1>2. at = i
    BY <1>1, OpenerFacts DEF Scanned
  <1> QED BY <1>1, <1>2, OpenerFacts DEF Scanned

LEMMA EndOfOptionsStep ==
  ASSUME OpenerInv, opening = "parse", at <= Len(args), O!EndOfOptions, UNCHANGED <<args, started, pending, lost>>
  PROVE  OpenerInv'
  <1> DEFINE executable == IF at < Len(args) THEN args[at + 1] ELSE None
             argv == SubSeq(args, at + 2, Len(args))
  <1>1. /\ args[at] = "--" /\ at' = Len(args) + 1 /\ UNCHANGED <<opening, exit>>
        /\ options' = [options EXCEPT !.executable = executable, !.argv = argv]
    BY DEF O!EndOfOptions
  <1>2. executable \in O!Tokens \cup {None} /\ argv \in Seq(O!Tokens) /\ at \in 1..Len(args)
    BY ReadingOn, OpenerFacts, TailIsWords
  <1>3. executable = (IF at < Len(args) THEN args[at + 1] ELSE None) /\ argv = SubSeq(args, at + 2, Len(args))
    OBVIOUS
  <1> HIDE DEF executable, argv
  <1>4. /\ options' \in O!Options /\ options'.set = options.set /\ options'.dryRun = options.dryRun
        /\ options'.executable = executable /\ options'.argv = argv
    BY <1>1, <1>2, OpenerFacts DEF O!Options
  <1>5. Stages' /\ StartsAsPlanned'
    BY <1>1, ParseStages
  <1>6. O!TypeOK'
    <2>1. Len(args) \in Nat /\ Len(args) <= MaxWords /\ MaxWords \in Nat /\ at' = Len(args) + 1
      BY <1>1, OpenerFacts, BoundsAssumption
    <2>2. at' \in 1..MaxWords + 2
      BY <2>1
    <2> QED BY <1>1, <1>4, <2>2 DEF OpenerInv, O!TypeOK
  <1>7. (\E i \in 1..Len(args) + 1 : Scanned(i))'
    <2>1. PICK i \in 1..Len(args) : i = at
      BY <1>2
    <2>2. \A k \in 1..i - 1 : args[k] # "--"
      BY <2>1, ReadingOn
    <2>3. options.set = O!Flags \cap {args[k] : k \in 1..i - 1}
      BY <2>1, ReadingOn
    <2>4. options'.executable = IF i < Len(args) THEN args[i + 1] ELSE None
      BY <1>3, <1>4, <2>1
    <2>5. options'.argv = SubSeq(args, i + 2, Len(args))
      BY <1>3, <1>4, <2>1
    <2>6. i <= Len(args) /\ args[i] = "--" /\ at' = Len(args) + 1 /\ options'.set = options.set /\ args' = args
      BY <1>1, <1>4, <2>1
    <2>7. i \in 1..Len(args') + 1 /\ Scanned(i)'
      BY <2>2, <2>3, <2>4, <2>5, <2>6 DEF Scanned
    <2> QED BY <2>7
  <1>8. DryRunIsSet'
    BY <1>4 DEF OpenerInv, DryRunIsSet
  <1>9. Len(args') <= MaxWords
    BY OpenerFacts
  <1> QED BY <1>5, <1>6, <1>7, <1>8, <1>9 DEF OpenerInv

(* A word more was read, which is not --.                                  *)
LEMMA ReadsOn ==
  ASSUME OpenerInv, opening = "parse", NEW n \in {1, 2}, at + n - 1 <= Len(args), at' = at + n, at <= Len(args),
         UNCHANGED <<args, opening, exit, started, pending, lost>>,
         \A k \in at..at + n - 1 : args[k] # "--",
         options' \in O!Options, options'.executable = options.executable,
         options'.set = options.set \cup (O!Flags \cap {args[k] : k \in at..at + n - 1}), DryRunIsSet'
  PROVE  OpenerInv'
  <1>1. Stages' /\ StartsAsPlanned'
    BY ParseStages
  <1>2. O!TypeOK'
    <2>1. at' \in 1..MaxWords + 2
      BY OpenerFacts, BoundsAssumption
    <2> QED BY <2>1 DEF OpenerInv, O!TypeOK
  <1>3. (\E i \in 1..Len(args) + 1 : Scanned(i))'
    <2>1. PICK i \in 1..Len(args) + 1 : i = at + n
      BY OpenerFacts
    <2>2. 1..i - 1 = (1..at - 1) \cup (at..at + n - 1)
      BY <2>1, OpenerFacts
    <2>3. \A k \in 1..i - 1 : args[k] # "--"
      BY <2>2, ReadingOn
    <2>4. options'.set = O!Flags \cap {args[k] : k \in 1..i - 1}
      BY <2>2, ReadingOn
    <2>5. Scanned(i)'
      BY <2>1, <2>3, <2>4, ReadingOn DEF Scanned
    <2> QED BY <2>5
  <1>4. Len(args') <= MaxWords
    BY OpenerFacts
  <1> QED BY <1>1, <1>2, <1>3, <1>4 DEF OpenerInv

LEMMA ValueOptionStep ==
  ASSUME OpenerInv, opening = "parse", at <= Len(args), O!ValueOption, UNCHANGED <<args, started, pending, lost>>
  PROVE  OpenerInv'
  <1>1. CASE ~O!HasValue
    BY <1>1, ParseFails DEF O!ValueOption
  <1>2. CASE O!HasValue
    <2> DEFINE v == args[at + 1]
    <2>1. at < Len(args) /\ v \in O!Tokens /\ v \notin O!Flags \cup O!Valued \cup {"--"} /\ at \in Nat /\ at >= 1
      BY <1>2, OpenerFacts, ReadingOn DEF O!HasValue, O!Option
    <2>2. /\ \/ options' = [options EXCEPT !.cwd = v]
             \/ options' = [options EXCEPT !.terminal = v]
          /\ at' = at + 2 /\ UNCHANGED <<opening, exit>> /\ args[at] \in O!Valued
      BY <1>2 DEF O!ValueOption
    <2>3. v = args[at + 1]
      OBVIOUS
    <2> HIDE DEF v
    <2>4. /\ options' \in O!Options /\ options'.executable = options.executable /\ options'.set = options.set
          /\ options'.dryRun = options.dryRun
      BY <2>1, <2>2, OpenerFacts DEF O!Options
    <2>5. at..at + 2 - 1 = {at, at + 1}
      BY <2>1
    <2>6. args[at] \notin O!Flags \cup {"--"}
      BY <2>2 DEF O!Flags, O!Valued
    <2>7. \A k \in at..at + 2 - 1 : args[k] # "--"
      BY <2>1, <2>3, <2>5, <2>6
    <2>8. options'.set = options.set \cup (O!Flags \cap {args[k] : k \in at..at + 2 - 1})
      BY <2>1, <2>3, <2>4, <2>5, <2>6
    <2>9. DryRunIsSet'
      BY <2>4 DEF OpenerInv, DryRunIsSet
    <2> QED BY <2>1, <2>2, <2>4, <2>7, <2>8, <2>9, ReadsOn, OpenerFacts
  <1> QED BY <1>1, <1>2

LEMMA FlagOptionStep ==
  ASSUME OpenerInv, opening = "parse", at <= Len(args), O!FlagOption, UNCHANGED <<args, started, pending, lost>>
  PROVE  OpenerInv'
  <1> DEFINE w == args[at]
             dry == CASE w = "--launch" -> FALSE [] w = "--dry-run" -> TRUE [] OTHER -> options.dryRun
  <1>1. /\ w \in O!Flags /\ at' = at + 1 /\ UNCHANGED <<opening, exit>>
        /\ options' = [options EXCEPT !.set = @ \cup {w}, !.dryRun = dry]
    BY DEF O!FlagOption
  <1>2. w = args[at] /\ dry \in BOOLEAN /\ at \in 1..Len(args)
    BY OpenerFacts, ReadingOn
  <1>3. /\ w = "--launch" => ~dry
        /\ w = "--dry-run" => dry
        /\ w \notin {"--launch", "--dry-run"} => dry = options.dryRun
    OBVIOUS
  <1> HIDE DEF w, dry
  <1>4. /\ options' \in O!Options /\ options'.executable = options.executable /\ options'.set = options.set \cup {w}
        /\ options'.dryRun = dry
    BY <1>1, <1>2, OpenerFacts DEF O!Options
  <1>5. at..at + 1 - 1 = {at}
    BY <1>2
  <1>6. \A k \in at..at + 1 - 1 : args[k] # "--"
    BY <1>1, <1>2, <1>5 DEF O!Flags
  <1>7. options'.set = options.set \cup (O!Flags \cap {args[k] : k \in at..at + 1 - 1})
    BY <1>1, <1>2, <1>4, <1>5
  <1>8. DryRunIsSet'
    <2>1. CASE w = "--launch"
      BY <1>3, <1>4, <2>1 DEF DryRunIsSet
    <2>2. CASE w = "--dry-run"
      BY <1>3, <1>4, <2>2 DEF DryRunIsSet
    <2>3. CASE w \notin {"--launch", "--dry-run"}
      BY <1>3, <1>4, <2>3 DEF OpenerInv, DryRunIsSet
    <2> QED BY <2>1, <2>2, <2>3
  <1> QED BY <1>1, <1>2, <1>4, <1>6, <1>7, <1>8, ReadsOn, OpenerFacts

LEMMA ParseStep ==
  ASSUME OpenerInv, O!Parse
  PROVE  OpenerInv'
  BY EndOfOptionsStep, ValueOptionStep, FlagOptionStep, ParseFails DEF O!Parse, O!UnknownOption

(* The steps after the words were read change no option.                   *)
LEMMA SameOptions ==
  ASSUME OpenerInv, UNCHANGED <<args, at, options>>
  PROVE  /\ (\E i \in 1..Len(args) + 1 : Scanned(i))' /\ DryRunIsSet' /\ Len(args') <= MaxWords
         /\ \A x : Chose(x)' = Chose(x)
         /\ O!Valid' = O!Valid /\ O!Chosen' = O!Chosen /\ O!Recovers' = O!Recovers /\ O!PlannedCommand' = O!PlannedCommand
  <1>1. (\E i \in 1..Len(args) + 1 : Scanned(i))' /\ DryRunIsSet' /\ Len(args') <= MaxWords
    BY DEF OpenerInv, Scanned, DryRunIsSet
  <1>2. O!Valid' = O!Valid /\ O!Chosen' = O!Chosen
    BY DEF O!Valid, O!Chosen
  <1>3. O!Recovers' = O!Recovers /\ O!PlannedCommand' = O!PlannedCommand
    BY DEF O!Recovers, O!PlannedCommand
  <1> QED BY <1>1, <1>2, <1>3 DEF Chose

LEMMA ValidateStep ==
  ASSUME OpenerInv, O!Validate
  PROVE  OpenerInv'
  <1>1. opening = "parse" /\ at > Len(args) /\ UNCHANGED <<args, at, options, started, pending, lost>> /\ Quietly
    BY DEF O!Validate, OpenerInv, Stages
  <1>2. CASE ~O!Valid
    BY <1>1, <1>2, ParseFails DEF O!Validate
  <1>3. CASE O!Valid
    <2>1. opening' = O!Chosen /\ exit' = exit /\ O!Chosen \in {"done", "detect", "launch"}
      BY <1>3 DEF O!Validate, O!Chosen
    <2>2. O!TypeOK'
      BY <1>1, <2>1 DEF OpenerInv, O!TypeOK
    <2>3. Quietly'
      BY <1>1, <2>1 DEF Quietly
    <2>4. Chose(O!Chosen)
      BY <1>1, <1>3 DEF Chose
    <2>5. Stages'
      BY <1>1, <1>3, <2>1, <2>3, <2>4, SameOptions DEF Stages, Quietly
    <2>6. StartsAsPlanned'
      BY <2>3 DEF Quietly, StartsAsPlanned
    <2> QED BY <1>1, <2>2, <2>5, <2>6, SameOptions DEF OpenerInv
  <1> QED BY <1>2, <1>3

LEMMA ProbeStep ==
  ASSUME OpenerInv, O!Probe
  PROVE  OpenerInv'
  <1>1. /\ opening \in {"detect", "launch"} /\ UNCHANGED <<args, at, options, started, pending, lost>> /\ Quietly
        /\ Chose(opening)
    BY DEF O!Probe, OpenerInv, Stages
  <1>2. /\ opening' \in {"done", "detach", "mux"} /\ exit' \in {0, 1}
        /\ exit' = 1 => opening' = "done"
        /\ exit' = 0 /\ opening' = "done" => opening = "detect"
        /\ opening' # "done" => opening = "launch"
        /\ opening' = "mux" => ~O!Recovers
    <2>1. CASE O!Fails
      BY <1>1, <2>1 DEF O!Fails
    <2>2. CASE exit' = exit /\ opening' = IF opening = "detect" THEN "done" ELSE IF O!Recovers THEN "detach" ELSE "mux"
      <3>1. CASE opening = "detect"
        BY <1>1, <2>2, <3>1 DEF Quietly
      <3>2. CASE opening = "launch" /\ O!Recovers
        BY <1>1, <2>2, <3>2 DEF Quietly
      <3>3. CASE opening = "launch" /\ ~O!Recovers
        BY <1>1, <2>2, <3>3 DEF Quietly
      <3> QED BY <1>1, <3>1, <3>2, <3>3
    <2> QED BY <2>1, <2>2 DEF O!Probe
  <1>3. O!TypeOK'
    BY <1>1, <1>2 DEF OpenerInv, O!TypeOK
  <1>4. Stages'
    <2>1. "detect" # "launch"
      OBVIOUS
    <2> QED BY <1>1, <1>2, <2>1, SameOptions DEF Stages, Quietly, Chose
  <1>5. StartsAsPlanned'
    BY <1>1 DEF Quietly, StartsAsPlanned
  <1> QED BY <1>1, <1>3, <1>4, <1>5, SameOptions DEF OpenerInv

(* A process that is started is the last of those that were.               *)
LEMMA StartsOne ==
  ASSUME OpenerInv, NEW how \in O!Strategies, O!Starts(how), UNCHANGED <<args, at, options>>,
         O!Recovers => how = "detached-recover", options.executable \in O!Tokens
  PROVE  /\ started' \in Seq([how: O!Strategies, command: Seq(O!Tokens)]) /\ started' # <<>>
         /\ Len(started') = Len(started) + 1 /\ StartsAsPlanned'
  <1> DEFINE one == [how |-> how, command |-> O!PlannedCommand]
  <1>1. O!PlannedCommand \in Seq(O!Tokens)
    <2>1. options.argv \in Seq(O!Tokens) /\ <<options.executable>> \in Seq(O!Tokens)
      BY OpenerFacts DEF O!Options
    <2> QED BY <2>1, ConcatProperties DEF O!PlannedCommand
  <1>2. one \in [how: O!Strategies, command: Seq(O!Tokens)] /\ one.how = how /\ one.command = O!PlannedCommand
    BY <1>1
  <1>3. started' = Append(started, one)
    BY DEF O!Starts
  <1> HIDE DEF one
  <1>4. /\ started' \in Seq([how: O!Strategies, command: Seq(O!Tokens)]) /\ Len(started') = Len(started) + 1
        /\ \A j \in 1..Len(started') : started'[j] = IF j <= Len(started) THEN started[j] ELSE one
    BY <1>2, <1>3, OpenerFacts
  <1>5. StartsAsPlanned'
    <2>1. O!PlannedCommand' = O!PlannedCommand /\ O!Recovers' = O!Recovers
      BY SameOptions
    <2>2. ASSUME NEW j \in 1..Len(started')
          PROVE  started'[j].command = O!PlannedCommand /\ (O!Recovers => started'[j].how = "detached-recover")
      <3>1. CASE j <= Len(started)
        <4>1. Len(started) \in Nat /\ j \in Nat /\ j >= 1
          BY <1>4, OpenerFacts
        <4>2. j \in 1..Len(started)
          BY <3>1, <4>1
        <4>3. started'[j] = started[j]
          BY <1>4, <3>1
        <4> QED BY <4>2, <4>3 DEF OpenerInv, StartsAsPlanned
      <3>2. CASE ~(j <= Len(started))
        BY <1>2, <1>4, <2>2, <3>2
      <3> QED BY <3>1, <3>2
    <2> QED BY <2>1, <2>2 DEF StartsAsPlanned
  <1> QED BY <1>4, <1>5, OpenerFacts

(* A launch that goes ahead has an executable: the words after --.         *)
LEMMA LaunchHasWords ==
  ASSUME OpenerInv, Chose("launch")
  PROVE  /\ options.executable \in O!Tokens /\ "--launch" \in options.set
         /\ options.set \cap {"--help", "--detect", "--dry-run"} = {}
         /\ \E i \in 1..Len(args) : /\ Scanned(i) /\ args[i] = "--" /\ i < Len(args)
                                    /\ O!PlannedCommand = SubSeq(args, i + 1, Len(args))
  <1>1. PICK i \in 1..Len(args) + 1 : Scanned(i)
    BY DEF OpenerInv
  <1>2. /\ "--help" \notin options.set /\ "--detect" \notin options.set /\ ~options.dryRun
    BY DEF Chose, O!Chosen
  <1>3. "--launch" \in options.set /\ "--dry-run" \notin options.set
    BY <1>2 DEF OpenerInv, DryRunIsSet, Chose, O!Valid
  <1>4. options.executable # None
    BY <1>2 DEF Chose, O!Valid
  <1>5. i < Len(args) /\ args[i] = "--" /\ options.executable = args[i + 1] /\ options.argv = SubSeq(args, i + 2, Len(args))
    BY <1>1, <1>4, OpenerFacts DEF Scanned
  <1>6. options.executable \in O!Tokens
    BY <1>5, OpenerFacts
  <1>7. O!PlannedCommand = SubSeq(args, i + 1, Len(args))
    <2>1. i \in 1..Len(args) /\ args \in Seq(O!Tokens)
      BY <1>1, <1>5, OpenerFacts
    <2>2. <<args[i + 1]>> \o SubSeq(args, i + 2, Len(args)) = SubSeq(args, i + 1, Len(args))
      BY <2>1, <1>5, OneAndTheRest
    <2> QED BY <2>2, <1>5 DEF O!PlannedCommand
  <1>8. i \in 1..Len(args) /\ options.set \cap {"--help", "--detect", "--dry-run"} = {}
    BY <1>1, <1>2, <1>3, <1>5, OpenerFacts
  <1> QED BY <1>1, <1>3, <1>5, <1>6, <1>7, <1>8

LEMMA MuxStep ==
  ASSUME OpenerInv, O!Mux
  PROVE  OpenerInv'
  <1>1. opening = "mux" /\ UNCHANGED <<args, at, options, pending>> /\ Quietly /\ Chose("launch") /\ ~O!Recovers
    BY DEF O!Mux, OpenerInv, Stages
  <1>2. options.executable \in O!Tokens /\ "mux" \in O!Strategies
    BY <1>1, LaunchHasWords DEF O!Strategies
  <1>3. /\ opening' \in {"done", "detach"} /\ exit' = 0 /\ lost' \in BOOLEAN
        /\ lost' => opening' = "detach"
        /\ \/ O!Starts("mux") /\ (opening' = "done" \/ lost')
           \/ UNCHANGED started /\ opening' = "detach"
    <2>1. lost = FALSE /\ exit = 0
      BY <1>1 DEF Quietly, OpenerInv, O!TypeOK
    <2>2. \/ O!Starts("mux") /\ O!Ends /\ UNCHANGED lost
          \/ UNCHANGED <<started, lost, exit>> /\ opening' = "detach"
          \/ O!Starts("mux") /\ lost' = TRUE /\ opening' = "detach" /\ UNCHANGED exit
      BY DEF O!Mux
    <2>3. CASE O!Starts("mux") /\ O!Ends /\ UNCHANGED lost
      BY <2>1, <2>3 DEF O!Ends
    <2>4. CASE UNCHANGED <<started, lost, exit>> /\ opening' = "detach"
      BY <2>1, <2>4
    <2>5. CASE O!Starts("mux") /\ lost' = TRUE /\ opening' = "detach" /\ UNCHANGED exit
      BY <2>1, <2>5
    <2> QED BY <2>2, <2>3, <2>4, <2>5
  <1>4. CASE O!Starts("mux")
    <2>0. /\ started' \in Seq([how: O!Strategies, command: Seq(O!Tokens)]) /\ started' # <<>>
          /\ Len(started') = Len(started) + 1 /\ StartsAsPlanned'
      BY <1>1, <1>2, <1>4, StartsOne
    <2>9. Len(started) = 0
      BY <1>1 DEF Quietly
    <2>1. /\ started' \in Seq([how: O!Strategies, command: Seq(O!Tokens)]) /\ started' # <<>>
          /\ Len(started') = 1 /\ StartsAsPlanned'
      BY <2>0, <2>9
    <2>2. O!TypeOK'
      BY <1>1, <1>3, <2>1 DEF OpenerInv, O!TypeOK
    <2>3. Stages'
      BY <1>1, <1>3, <2>1, <1>4, SameOptions DEF Stages, Quietly
    <2> QED BY <1>1, <2>1, <2>2, <2>3, SameOptions DEF OpenerInv
  <1>5. CASE UNCHANGED started /\ opening' = "detach"
    <2>1. O!TypeOK'
      BY <1>1, <1>3, <1>5 DEF OpenerInv, O!TypeOK
    <2>2. Stages' /\ StartsAsPlanned'
      BY <1>1, <1>3, <1>5, SameOptions DEF Stages, Quietly, StartsAsPlanned
    <2> QED BY <1>1, <2>1, <2>2, SameOptions DEF OpenerInv
  <1> QED BY <1>3, <1>4, <1>5

LEMMA DetachStep ==
  ASSUME OpenerInv, O!Detach
  PROVE  OpenerInv'
  <1>1. /\ opening = "detach" /\ UNCHANGED <<args, at, options, lost>> /\ Chose("launch") /\ exit = 0 /\ ~pending
        /\ lost \/ started = <<>>
    BY DEF O!Detach, OpenerInv, Stages
  <1> DEFINE how == IF O!Recovers THEN "detached-recover" ELSE "detached-fallback"
  <1>2. options.executable \in O!Tokens /\ how \in O!Strategies /\ (O!Recovers => how = "detached-recover")
    BY <1>1, LaunchHasWords DEF O!Strategies
  <1>3. /\ opening' = "done" /\ exit' \in {0, 1} /\ pending' \in BOOLEAN
        /\ \/ UNCHANGED started /\ (exit' = 1 \/ pending')
           \/ O!Starts(how) /\ exit' = 0 /\ ~pending'
    <2>1. \/ O!Fails /\ UNCHANGED <<started, pending>>
          \/ O!Starts(how) /\ O!Ends /\ UNCHANGED pending
          \/ O!Ends /\ pending' = TRUE /\ UNCHANGED started
      BY DEF O!Detach
    <2> HIDE DEF how
    <2>2. pending = FALSE
      BY <1>1 DEF OpenerInv, O!TypeOK
    <2>3. CASE O!Fails /\ UNCHANGED <<started, pending>>
      BY <2>2, <2>3 DEF O!Fails
    <2>4. CASE O!Starts(how) /\ O!Ends /\ UNCHANGED pending
      BY <1>1, <2>2, <2>4 DEF O!Ends
    <2>5. CASE O!Ends /\ pending' = TRUE /\ UNCHANGED started
      BY <1>1, <2>5 DEF O!Ends
    <2> QED BY <2>1, <2>3, <2>4, <2>5
  <1> HIDE DEF how
  <1>4. CASE O!Starts(how) /\ exit' = 0 /\ ~pending'
    <2>1. /\ started' \in Seq([how: O!Strategies, command: Seq(O!Tokens)]) /\ started' # <<>>
          /\ Len(started') = Len(started) + 1 /\ StartsAsPlanned'
      BY <1>1, <1>2, <1>4, StartsOne
    <2>2. O!TypeOK'
      BY <1>1, <1>3, <2>1 DEF OpenerInv, O!TypeOK
    <2>3. lost \/ Len(started') = 1
      BY <1>1, <2>1
    <2>4. Stages'
      BY <1>1, <1>3, <1>4, <2>1, <2>3, SameOptions DEF Stages, Quietly
    <2> QED BY <1>1, <2>1, <2>2, <2>4, SameOptions DEF OpenerInv
  <1>5. CASE UNCHANGED started /\ (exit' = 1 \/ pending')
    <2>1. O!TypeOK'
      BY <1>1, <1>3, <1>5 DEF OpenerInv, O!TypeOK
    <2>2. Stages'
      BY <1>1, <1>3, <1>5, SameOptions DEF Stages, Quietly
    <2>3. StartsAsPlanned'
      BY <1>1, <1>5, SameOptions DEF OpenerInv, StartsAsPlanned
    <2> QED BY <1>1, <2>1, <2>2, <2>3, SameOptions DEF OpenerInv
  <1> QED BY <1>3, <1>4, <1>5

LEMMA ReportStep ==
  ASSUME OpenerInv, O!ReportDetachedError
  PROVE  OpenerInv'
  <1>1. /\ opening = "done" /\ UNCHANGED <<args, at, options, opening, started, lost>> /\ pending /\ ~pending' /\ exit' = 1
        /\ Chose("launch") /\ pending' \in BOOLEAN
    BY DEF O!ReportDetachedError, O!AfterError, OpenerInv, Stages
  <1>2. O!TypeOK'
    BY <1>1 DEF OpenerInv, O!TypeOK
  <1>3. Stages'
    BY <1>1, SameOptions DEF OpenerInv, Stages, Quietly
  <1>4. StartsAsPlanned'
    BY <1>1, SameOptions DEF OpenerInv, StartsAsPlanned
  <1> QED BY <1>1, <1>2, <1>3, <1>4, SameOptions DEF OpenerInv

LEMMA OpenerStep == OpenerInv /\ [O!Next]_opener => OpenerInv'
  <1> SUFFICES ASSUME OpenerInv, [O!Next]_opener PROVE OpenerInv'
    OBVIOUS
  <1>1. CASE O!Next
    BY <1>1, ParseStep, ValidateStep, ProbeStep, MuxStep, DetachStep, ReportStep DEF O!Next
  <1>2. CASE UNCHANGED opener
    <2>1. UNCHANGED <<args, at, options, opening, started, pending, lost, exit>>
      BY <1>2 DEF opener
    <2>2. O!TypeOK'
      BY <2>1 DEF OpenerInv, O!TypeOK
    <2>3. Stages' /\ StartsAsPlanned'
      BY <2>1, SameOptions DEF OpenerInv, Stages, Quietly, StartsAsPlanned
    <2> QED BY <2>1, <2>2, <2>3, SameOptions DEF OpenerInv
  <1> QED BY <1>1, <1>2

LEMMA OpenerKept == Spec => [](part = "opener" => OpenerInv)
  <1> DEFINE Inv == part = "opener" => OpenerInv
  <1>1. Init => Inv
    BY OpenerInit DEF Init
  <1>2. Inv /\ [Next]_vars => Inv'
    BY OpenerStep DEF Next, vars, opener
  <1> QED BY <1>1, <1>2, PTL DEF Spec

LEMMA GivenIs ==
  ASSUME OpenerInv, at > Len(args), NEW i, Scanned(i)
  PROVE  O!Given = {args[k] : k \in 1..i - 1} /\ options.set = O!Flags \cap O!Given
  <1>1. i \in 1..Len(args) + 1 /\ (\A k \in 1..i - 1 : args[k] # "--") /\ (i = Len(args) + 1 \/ args[i] = "--")
    BY OpenerFacts DEF Scanned
  <1>2. {j \in 1..Len(args) : \A k \in 1..j : args[k] # "--"} = 1..i - 1
    BY <1>1, OpenerFacts
  <1> QED BY <1>2 DEF O!Given, Scanned

(* A process is launched as the command line asks, for command lines of    *)
(* any length and whatever wezterm does, and the exit status tells         *)
(* whether one was (parseArgs, main, launch and its fallback).             *)
THEOREM Launches == Spec => []LaunchIsRight
  <1>1. OpenerInv => O!LaunchedAsAsked
    <2> SUFFICES ASSUME OpenerInv, started # <<>> PROVE O!LaunchedAsAsked
      BY DEF O!LaunchedAsAsked
    <2>1. Chose("launch") /\ at > Len(args) /\ StartsAsPlanned
      BY DEF OpenerInv, Stages, Chose
    <2>2. PICK i \in 1..Len(args) : /\ Scanned(i) /\ args[i] = "--"
                                    /\ O!PlannedCommand = SubSeq(args, i + 1, Len(args))
      BY <2>1, LaunchHasWords
    <2>3. options.set = O!Flags \cap O!Given
      BY <2>1, <2>2, GivenIs
    <2>4. "--launch" \in O!Given /\ O!Given \cap {"--help", "--detect", "--dry-run"} = {}
      BY <2>1, <2>3, LaunchHasWords DEF O!Flags
    <2>5. /\ \A k \in 1..i - 1 : args[k] # "--"
          /\ \A j \in 1..Len(started) : started[j].command = SubSeq(args, i + 1, Len(args))
      BY <2>1, <2>2 DEF Scanned, StartsAsPlanned
    <2>6. "--recover" \in O!Given => O!Recovers
      BY <2>3 DEF O!Flags, O!Recovers
    <2> QED BY <2>1, <2>2, <2>4, <2>5, <2>6 DEF O!LaunchedAsAsked, StartsAsPlanned
  <1>2. OpenerInv => O!LaunchIsReported
    <2> SUFFICES ASSUME OpenerInv, O!Over, ~lost
                 PROVE  /\ exit = 0 /\ "--launch" \in O!Given /\ O!Given \cap {"--help", "--detect"} = {} => started # <<>>
                        /\ exit = 1 => started = <<>>
                        /\ Len(started) <= 1
      BY DEF O!LaunchIsReported
    <2>1. (exit = 1 => started = <<>>) /\ Len(started) <= 1
      BY DEF OpenerInv, Stages, O!Over
    <2>2. ASSUME exit = 0, "--launch" \in O!Given, O!Given \cap {"--help", "--detect"} = {}, started = <<>> PROVE FALSE
      <3>1. at > Len(args) /\ O!Valid /\ O!Chosen # "launch"
        BY <2>2 DEF OpenerInv, Stages, O!Over, Quietly
      <3>2. options.set = O!Flags \cap O!Given
        BY <3>1, GivenIs DEF OpenerInv
      <3>3. "--launch" \in options.set /\ "--help" \notin options.set /\ "--detect" \notin options.set
        BY <2>2, <3>2 DEF O!Flags
      <3>4. "--dry-run" \in options.set
        BY <3>1, <3>3 DEF O!Chosen, OpenerInv, DryRunIsSet
      <3> QED BY <3>1, <3>3, <3>4 DEF O!Valid
    <2> QED BY <2>1, <2>2
  <1>3. (part = "opener" => OpenerInv) => LaunchIsRight
    BY <1>1, <1>2 DEF LaunchIsRight
  <1> QED BY <1>3, OpenerKept, PTL

-----------------------------------------------------------------------------
(***************************************************************************)
(* The browsers.                                                           *)
(***************************************************************************)

Pages == {c \in Clients : browsing[c].pc = "page"}

(* Session IDs are not given twice, and there are as many browsers as IDs  *)
(* given and to be given.                                                  *)
IdsGoUp ==
  /\ nextId + Cardinality(Pages) <= launched + 1
  /\ DOMAIN sessions \subseteq 1..nextId - 1
  /\ \A c \in Clients \ OAuth : \A p \in told[c] : p[1] < nextId

(* A call that opens a page has a browser, and one that closes a session   *)
(* the browser of that session, if it is still there.                      *)
CallsFit ==
  \A c \in Clients :
    /\ browsing[c].pc = "page" => browsing[c].browser \in B!Launched
    /\ browsing[c].pc = "close" =>
         /\ c \notin OAuth /\ browsing[c].id < nextId
         /\ browsing[c].id \in DOMAIN sessions => sessions[browsing[c].id].browser = browsing[c].browser

(* A browser that runs is in a session or its page is to be opened.        *)
InReach ==
  \A b \in running :
    \/ b \in orphans
    \/ \E c \in Pages : browsing[c].browser = b
    \/ \E i \in DOMAIN sessions : sessions[i].browser = b

Limited ==
  Cardinality(DOMAIN sessions) + Cardinality(B!Opening) < Max_Sessions + Cardinality(Clients \ OAuth)

BrowsersInv == B!TypeOK /\ IdsGoUp /\ CallsFit /\ InReach /\ B!SessionsAreOwn /\ Limited

LEMMA Counts == \A s : B!Cardinality(s) = Cardinality(s)
  BY DEF B!Cardinality, Cardinality

LEMMA Finite ==
  ASSUME B!TypeOK
  PROVE  /\ IsFiniteSet(DOMAIN sessions) /\ IsFiniteSet(B!Opening) /\ IsFiniteSet(Pages)
         /\ IsFiniteSet(Clients \ OAuth) /\ Cardinality(Clients \ OAuth) \in Nat
         /\ Cardinality(DOMAIN sessions) \in Nat /\ Cardinality(B!Opening) \in Nat /\ Cardinality(Pages) \in Nat
         /\ Cardinality(B!Opening) <= Cardinality(Clients \ OAuth)
  <1>1. IsFiniteSet(1..MaxStarts)
    BY BoundsAssumption, FS_Interval
  <1>2. IsFiniteSet(DOMAIN sessions)
    BY <1>1, FS_Subset DEF B!TypeOK, B!Ids
  <1>3. IsFiniteSet(Clients \ OAuth) /\ IsFiniteSet(Pages)
    BY BrowsersAssumption, FS_Subset DEF Pages
  <1>4. IsFiniteSet(B!Opening) /\ Cardinality(B!Opening) <= Cardinality(Clients \ OAuth)
    <2>1. B!Opening \subseteq Clients \ OAuth
      BY DEF B!Opening
    <2> QED BY <1>3, <2>1, FS_Subset
  <1> QED BY <1>2, <1>3, <1>4, FS_CardinalityType

(* Fewer sessions and fewer that open one keep the limit.                  *)
LEMMA LimitStays ==
  ASSUME BrowsersInv, DOMAIN sessions' \subseteq DOMAIN sessions, B!Opening' \subseteq B!Opening
  PROVE  Limited'
  <1>1. /\ Cardinality(DOMAIN sessions') <= Cardinality(DOMAIN sessions) /\ Cardinality(DOMAIN sessions') \in Nat
        /\ Cardinality(B!Opening') <= Cardinality(B!Opening) /\ Cardinality(B!Opening') \in Nat
    BY Finite, FS_Subset, FS_CardinalityType DEF BrowsersInv
  <1>2. Max_Sessions \in Nat /\ Cardinality(Clients \ OAuth) \in Nat
    BY Finite, BoundsAssumption DEF BrowsersInv
  <1> QED BY <1>1, <1>2, Finite DEF BrowsersInv, Limited

LEMMA PagesStay ==
  ASSUME BrowsersInv, Pages' \subseteq Pages, UNCHANGED <<nextId, launched>>
  PROVE  nextId' + Cardinality(Pages') <= launched' + 1
  <1>1. Cardinality(Pages') <= Cardinality(Pages) /\ Cardinality(Pages') \in Nat
    BY Finite, FS_Subset, FS_CardinalityType DEF BrowsersInv
  <1> QED BY <1>1, Finite DEF BrowsersInv, IdsGoUp, B!TypeOK

CallTypeB ==
  [pc: {"none", "evict", "evicting", "launch", "page", "use", "close"},
   id: 0..MaxStarts, browser: B!Launched \cup {NoBrowser}]

LEMMA BrowsersFacts ==
  ASSUME BrowsersInv, NEW c \in Clients
  PROVE  /\ browsing[c] \in CallTypeB /\ browsing \in [Clients -> CallTypeB]
         /\ B!NoCall \in CallTypeB /\ B!NoCall.pc = "none"
         /\ \A pc : /\ [browsing[c] EXCEPT !.pc = pc].pc = pc
                    /\ [browsing[c] EXCEPT !.pc = pc].id = browsing[c].id
                    /\ [browsing[c] EXCEPT !.pc = pc].browser = browsing[c].browser
  BY BoundsAssumption DEF BrowsersInv, B!TypeOK, CallTypeB, B!NoCall

(* Steps that only move one call, to or from no page.                      *)
LEMMA BrowsingMoves ==
  ASSUME BrowsersInv, NEW c \in Clients, NEW r \in CallTypeB, browsing' = [browsing EXCEPT ![c] = r],
         UNCHANGED <<sessions, nextId, running, told, launched, restarts, orphans>>,
         browsing[c].pc # "page", r.pc # "page",
         r.pc = "close" => c \notin OAuth /\ r.id \in DOMAIN sessions /\ sessions[r.id].browser = r.browser,
         r.pc = "launch" => c \in OAuth \/ Cardinality(DOMAIN sessions) < Max_Sessions
  PROVE  BrowsersInv'
  <1>1. browsing'[c] = r /\ \A d \in Clients \ {c} : browsing'[d] = browsing[d]
    BY BrowsersFacts
  <1>2. B!TypeOK'
    BY BrowsersFacts DEF BrowsersInv, B!TypeOK, CallTypeB
  <1>3. Pages' = Pages
    BY <1>1 DEF Pages
  <1>4. IdsGoUp'
    BY <1>3 DEF BrowsersInv, IdsGoUp
  <1>5. CallsFit'
    BY <1>1 DEF BrowsersInv, CallsFit, IdsGoUp, B!TypeOK
  <1>6. InReach'
    BY <1>1, <1>3 DEF BrowsersInv, InReach, Pages
  <1>7. B!SessionsAreOwn'
    BY DEF BrowsersInv, B!SessionsAreOwn
  <1>8. Limited'
    <2>1. CASE r.pc = "launch" /\ c \notin OAuth
      <3>1. Cardinality(B!Opening') <= Cardinality(Clients \ OAuth) /\ Cardinality(B!Opening') \in Nat
        <4>1. B!Opening' \subseteq Clients \ OAuth
          BY DEF B!Opening
        <4> QED BY <4>1, Finite, FS_Subset, FS_CardinalityType DEF BrowsersInv
      <3> QED BY <2>1, <3>1, Finite, BoundsAssumption DEF BrowsersInv, Limited
    <2>2. CASE r.pc # "launch" \/ c \in OAuth
      <3>1. B!Opening' \subseteq B!Opening
        BY <1>1, <2>2 DEF B!Opening
      <3> QED BY <3>1, LimitStays
    <2> QED BY <2>1, <2>2
  <1> QED BY <1>2, <1>4, <1>5, <1>6, <1>7, <1>8 DEF BrowsersInv

LEMMA BrowsersInit == B!Init => BrowsersInv
  <1> SUFFICES ASSUME B!Init PROVE BrowsersInv
    OBVIOUS
  <1>1. /\ sessions = <<>> /\ nextId = 1 /\ running = {} /\ orphans = {} /\ launched = 0 /\ restarts = 0
        /\ browsing = [c \in Clients |-> B!NoCall] /\ told = [c \in Clients |-> {}]
    BY DEF B!Init
  <1>2. DOMAIN sessions = {} /\ B!NoCall.pc = "none"
    BY <1>1 DEF B!NoCall
  <1>3. B!TypeOK
    <2>1. B!NoCall \in CallTypeB
      BY BoundsAssumption DEF CallTypeB, B!NoCall
    <2> QED BY <1>1, <1>2, <2>1, BoundsAssumption DEF B!TypeOK, CallTypeB
  <1>4. Pages = {} /\ B!Opening = {} /\ Cardinality({}) = 0
    BY <1>1, <1>2, FS_EmptySet DEF Pages, B!Opening
  <1>5. IdsGoUp /\ CallsFit /\ InReach /\ B!SessionsAreOwn
    BY <1>1, <1>2, <1>4 DEF IdsGoUp, CallsFit, InReach, B!SessionsAreOwn
  <1>6. Limited
    BY <1>2, <1>3, <1>4, Finite, BoundsAssumption DEF Limited
  <1> QED BY <1>3, <1>5, <1>6 DEF BrowsersInv

LEMMA BeginStep ==
  ASSUME BrowsersInv, NEW c \in Clients, B!Begin(c) \/ B!Used(c)
  PROVE  BrowsersInv'
  <1>1. \/ browsing' = [browsing EXCEPT ![c] = [browsing[c] EXCEPT !.pc = "evict"]]
        \/ browsing' = [browsing EXCEPT ![c] = B!NoCall]
    BY DEF B!Begin, B!Used, B!Goes, B!Ends
  <1>2. browsing[c].pc \in {"none", "use"} /\ UNCHANGED <<sessions, nextId, running, told, launched, restarts, orphans>>
    BY DEF B!Begin, B!Used
  <1> DEFINE r == [browsing[c] EXCEPT !.pc = "evict"]
  <1>3. r \in CallTypeB /\ r.pc = "evict"
    BY BrowsersFacts DEF CallTypeB
  <1>4. CASE browsing' = [browsing EXCEPT ![c] = r]
    <2> HIDE DEF r
    <2> QED BY <1>2, <1>3, <1>4, BrowsingMoves
  <1>5. CASE browsing' = [browsing EXCEPT ![c] = B!NoCall]
    BY <1>2, <1>5, BrowsersFacts, BrowsingMoves
  <1> QED BY <1>1, <1>4, <1>5

LEMMA EvictStep ==
  ASSUME BrowsersInv, NEW c \in Clients, B!Evict(c)
  PROVE  BrowsersInv'
  <1>1. browsing[c].pc = "evict" /\ UNCHANGED <<sessions, nextId, running, told, launched, restarts, orphans>>
    BY DEF B!Evict
  <1>2. ASSUME NEW i \in B!IdleAhead(c), browsing' = [browsing EXCEPT ![c].pc = "evicting", ![c].id = i]
        PROVE  BrowsersInv'
    <2> DEFINE r == [browsing[c] EXCEPT !.pc = "evicting", !.id = i]
    <2>1. i \in 1..MaxStarts
      BY DEF B!IdleAhead, B!Held, BrowsersInv, B!TypeOK, B!Ids
    <2>2. r \in CallTypeB /\ r.pc = "evicting"
      <3>1. i \in 0..MaxStarts
        BY <2>1, BoundsAssumption
      <3> QED BY <3>1, BrowsersFacts DEF CallTypeB
    <2>3. browsing' = [browsing EXCEPT ![c] = r]
      BY <1>2, BrowsersFacts DEF CallTypeB
    <2> HIDE DEF r
    <2> QED BY <1>1, <2>2, <2>3, BrowsingMoves
  <1>3. CASE B!HasRoom(c) /\ B!Goes(c, "launch")
    <2> DEFINE r == [browsing[c] EXCEPT !.pc = "launch"]
    <2>1. r \in CallTypeB /\ r.pc = "launch"
      BY BrowsersFacts DEF CallTypeB
    <2>2. browsing' = [browsing EXCEPT ![c] = r]
      BY <1>3 DEF B!Goes
    <2> HIDE DEF r
    <2>3. c \in OAuth \/ Cardinality(DOMAIN sessions) < Max_Sessions
      BY <1>3, Counts DEF B!HasRoom, B!Held
    <2> QED BY <1>1, <2>1, <2>2, <2>3, BrowsingMoves
  <1>4. CASE browsing' = [browsing EXCEPT ![c] = B!NoCall]
    BY <1>1, <1>4, BrowsersFacts, BrowsingMoves
  <1> QED BY <1>2, <1>3, <1>4 DEF B!Evict, B!Ends

LEMMA UseRecord ==
  ASSUME NEW pc \in {"use", "close"}, NEW i \in 1..MaxStarts, NEW b \in B!Launched
  PROVE  /\ [B!NoCall EXCEPT !.pc = pc, !.id = i, !.browser = b] \in CallTypeB
         /\ [B!NoCall EXCEPT !.pc = pc, !.id = i, !.browser = b].pc = pc
         /\ [B!NoCall EXCEPT !.pc = pc, !.id = i, !.browser = b].id = i
         /\ [B!NoCall EXCEPT !.pc = pc, !.id = i, !.browser = b].browser = b
  <1>1. i \in 0..MaxStarts /\ b \in B!Launched \cup {NoBrowser}
    BY BoundsAssumption
  <1>2. pc \in {"none", "evict", "evicting", "launch", "page", "use", "close"}
    OBVIOUS
  <1>3. [B!NoCall EXCEPT !.pc = pc, !.id = i, !.browser = b] \in CallTypeB
    BY <1>1, <1>2 DEF B!NoCall, CallTypeB
  <1> QED BY <1>3 DEF B!NoCall

LEMMA UseStep ==
  ASSUME BrowsersInv, NEW c \in Clients, B!Use(c)
  PROVE  BrowsersInv'
  <1>1. browsing[c].pc = "none" /\ UNCHANGED <<sessions, nextId, running, told, launched, restarts, orphans>>
    BY DEF B!Use
  <1>2. PICK i \in B!Known(c) \cap B!Held(c), pc \in {"use", "close"} :
          browsing' = [browsing EXCEPT ![c] = [B!NoCall EXCEPT !.pc = pc, !.id = i, !.browser = sessions[i].browser]]
    BY DEF B!Use
  <1> DEFINE b == sessions[i].browser
             r == [B!NoCall EXCEPT !.pc = pc, !.id = i, !.browser = b]
  <1>3. c \notin OAuth /\ i \in DOMAIN sessions /\ i \in 1..MaxStarts /\ b \in B!Launched /\ sessions[i].browser = b
    BY DEF B!Held, BrowsersInv, B!TypeOK, B!Ids, B!Session
  <1>4. browsing' = [browsing EXCEPT ![c] = r]
    BY <1>2
  <1> HIDE DEF b
  <1>5. r \in CallTypeB /\ r.pc = pc /\ r.id = i /\ r.browser = b
    <2>1. pc \in {"use", "close"}
      OBVIOUS
    <2>2. i \in 1..MaxStarts /\ b \in B!Launched
      BY <1>3
    <2>3. r \in CallTypeB
      BY <2>1, <2>2, UseRecord
    <2>4. r.pc = pc /\ r.id = i /\ r.browser = b
      BY DEF B!NoCall
    <2> QED BY <2>3, <2>4
  <1> HIDE DEF r
  <1> QED BY <1>1, <1>3, <1>4, <1>5, BrowsingMoves

(* Sessions of which only the time passes.                                 *)
LEMMA SameSessions ==
  ASSUME BrowsersInv, UNCHANGED <<browsing, nextId, running, told, launched, restarts, orphans>>,
         DOMAIN sessions' = DOMAIN sessions,
         \A i \in DOMAIN sessions : sessions'[i] \in B!Session /\ sessions'[i].browser = sessions[i].browser
  PROVE  BrowsersInv'
  <1>1. B!TypeOK'
    BY DEF BrowsersInv, B!TypeOK
  <1>2. IdsGoUp' /\ CallsFit' /\ InReach' /\ B!SessionsAreOwn' /\ Pages' = Pages /\ B!Opening' = B!Opening
    BY DEF BrowsersInv, IdsGoUp, CallsFit, InReach, B!SessionsAreOwn, Pages, B!Opening
  <1>3. Limited'
    BY <1>2, LimitStays
  <1> QED BY <1>1, <1>2, <1>3 DEF BrowsersInv

LEMMA TimePasses ==
  ASSUME BrowsersInv, NEW i \in DOMAIN sessions, NEW b \in BOOLEAN
  PROVE  LET later == [sessions EXCEPT ![i].idle = b] IN
         /\ DOMAIN later = DOMAIN sessions
         /\ \A j \in DOMAIN sessions : later[j] \in B!Session /\ later[j].browser = sessions[j].browser
  BY DEF BrowsersInv, B!TypeOK, B!Session

LEMMA IdleStep ==
  ASSUME BrowsersInv, B!Idle
  PROVE  BrowsersInv'
  BY TimePasses, SameSessions DEF B!Idle

LEMMA NavigateStep ==
  ASSUME BrowsersInv, NEW c \in Clients, B!Navigate(c)
  PROVE  BrowsersInv'
  <1>1. browsing[c].pc = "none" /\ UNCHANGED <<nextId, running, told, launched, restarts, orphans>>
    BY DEF B!Navigate
  <1>2. PICK i \in B!Known(c) \cap B!Held(c) :
          /\ sessions' = [sessions EXCEPT ![i].idle = FALSE]
          /\ browsing' = [browsing EXCEPT ![c] = [B!NoCall EXCEPT !.pc = "use", !.id = i, !.browser = sessions[i].browser]]
    BY DEF B!Navigate
  <1> DEFINE b == sessions[i].browser
             r == [B!NoCall EXCEPT !.pc = "use", !.id = i, !.browser = b]
  <1>3. c \notin OAuth /\ i \in DOMAIN sessions /\ i \in 1..MaxStarts /\ b \in B!Launched
    BY DEF B!Held, BrowsersInv, B!TypeOK, B!Ids, B!Session
  <1>4. r \in CallTypeB /\ r.pc = "use" /\ browsing' = [browsing EXCEPT ![c] = r]
    <2>1. "use" \in {"use", "close"} /\ browsing' = [browsing EXCEPT ![c] = r]
      BY <1>2
    <2> HIDE DEF b
    <2>2. r \in CallTypeB /\ r.pc = "use"
      BY <1>3, <2>1, UseRecord
    <2> QED BY <2>1, <2>2
  <1> HIDE DEF r
  <1>5. browsing'[c] = r /\ \A d \in Clients \ {c} : browsing'[d] = browsing[d]
    BY <1>4, BrowsersFacts
  <1>6. /\ DOMAIN sessions' = DOMAIN sessions
        /\ \A j \in DOMAIN sessions : sessions'[j] \in B!Session /\ sessions'[j].browser = sessions[j].browser
    BY <1>2, <1>3, TimePasses
  <1>7. B!TypeOK'
    BY <1>1, <1>4, <1>6, BrowsersFacts DEF BrowsersInv, B!TypeOK, CallTypeB
  <1>8. Pages' = Pages /\ B!Opening' = B!Opening
    BY <1>1, <1>4, <1>5 DEF Pages, B!Opening
  <1>9. IdsGoUp' /\ B!SessionsAreOwn'
    BY <1>1, <1>6, <1>8 DEF BrowsersInv, IdsGoUp, B!SessionsAreOwn
  <1>11. CallsFit' /\ InReach'
    BY <1>1, <1>4, <1>5, <1>6, <1>8 DEF BrowsersInv, CallsFit, InReach, Pages
  <1>10. Limited'
    BY <1>6, <1>8, LimitStays
  <1> QED BY <1>7, <1>9, <1>10, <1>11 DEF BrowsersInv

LEMMA WithoutIs ==
  ASSUME NEW i
  PROVE  /\ DOMAIN B!Without(i) = DOMAIN sessions \ {i}
         /\ \A j \in DOMAIN sessions \ {i} : B!Without(i)[j] = sessions[j]
  BY DEF B!Without

(* A call is over a session that is closed, or stays.                      *)
LEMMA Closes ==
  ASSUME BrowsersInv, NEW c \in Clients, NEW r \in CallTypeB, browsing' = [browsing EXCEPT ![c] = r],
         UNCHANGED <<nextId, told, launched, restarts, orphans>>,
         browsing[c].pc # "page", r.pc \in {"none", "evict"}, NEW i,
         \/ UNCHANGED <<sessions, running>>
         \/ /\ sessions' = B!Without(i)
            /\ running' \subseteq running
            /\ i \in DOMAIN sessions => running' = running \ {sessions[i].browser}
  PROVE  BrowsersInv'
  <1>1. browsing'[c] = r /\ \A d \in Clients \ {c} : browsing'[d] = browsing[d]
    BY BrowsersFacts
  <1>2. DOMAIN sessions' \subseteq DOMAIN sessions /\ \A j \in DOMAIN sessions' : sessions'[j] = sessions[j]
    <2>1. CASE sessions' = B!Without(i)
      BY <2>1, WithoutIs
    <2> QED BY <2>1
  <1>3. running' \subseteq running
    OBVIOUS
  <1>4. B!TypeOK'
    BY <1>2, <1>3, BrowsersFacts DEF BrowsersInv, B!TypeOK, CallTypeB
  <1>5. Pages' = Pages /\ B!Opening' \subseteq B!Opening
    BY <1>1 DEF Pages, B!Opening
  <1>6. IdsGoUp' /\ B!SessionsAreOwn'
    BY <1>2, <1>5 DEF BrowsersInv, IdsGoUp, B!SessionsAreOwn
  <1>7. CallsFit'
    BY <1>1, <1>2 DEF BrowsersInv, CallsFit
  <1>8. InReach'
    <2>1. ASSUME NEW b \in running'
          PROVE  \/ b \in orphans
                 \/ \E d \in Pages' : browsing'[d].browser = b
                 \/ \E j \in DOMAIN sessions' : sessions'[j].browser = b
      <3>1. CASE \E j \in DOMAIN sessions : sessions[j].browser = b
        <4>1. PICK j \in DOMAIN sessions : sessions[j].browser = b
          BY <3>1
        <4>2. j \in DOMAIN sessions'
          BY <2>1, <4>1, WithoutIs
        <4> QED BY <1>2, <4>1, <4>2
      <3>2. CASE \E d \in Pages : browsing[d].browser = b
        BY <1>1, <1>5, <3>2 DEF Pages
      <3> QED BY <1>3, <3>1, <3>2 DEF BrowsersInv, InReach
    <2> QED BY <2>1 DEF InReach
  <1>9. Limited'
    BY <1>2, <1>5, LimitStays
  <1> QED BY <1>4, <1>6, <1>7, <1>8, <1>9 DEF BrowsersInv

LEMMA EvictedStep ==
  ASSUME BrowsersInv, NEW c \in Clients, B!Evicted(c)
  PROVE  BrowsersInv'
  <1> DEFINE r == [browsing[c] EXCEPT !.pc = "evict"]
  <1>1. r \in CallTypeB /\ r.pc = "evict" /\ browsing' = [browsing EXCEPT ![c] = r]
    BY BrowsersFacts DEF CallTypeB, B!Evicted, B!Goes
  <1> HIDE DEF r
  <1>2. /\ browsing[c].pc # "page" /\ UNCHANGED <<nextId, told, launched, restarts, orphans>>
        /\ \/ UNCHANGED <<sessions, running>>
           \/ /\ sessions' = B!Without(browsing[c].id)
              /\ running' \subseteq running
              /\ browsing[c].id \in DOMAIN sessions => running' = running \ {sessions[browsing[c].id].browser}
    BY DEF B!Evicted
  <1> QED BY <1>1, <1>2, Closes

LEMMA CloseStep ==
  ASSUME BrowsersInv, NEW c \in Clients, B!Close(c)
  PROVE  BrowsersInv'
  <1>1. B!NoCall \in CallTypeB /\ B!NoCall.pc = "none" /\ browsing' = [browsing EXCEPT ![c] = B!NoCall]
    BY BrowsersFacts DEF B!Close, B!Ends
  <1>2. /\ browsing[c].pc # "page" /\ UNCHANGED <<nextId, told, launched, restarts, orphans>>
        /\ \/ UNCHANGED <<sessions, running>>
           \/ /\ sessions' = B!Without(browsing[c].id)
              /\ running' \subseteq running
              /\ browsing[c].id \in DOMAIN sessions => running' = running \ {sessions[browsing[c].id].browser}
    BY DEF B!Close, B!Closed, BrowsersInv, CallsFit
  <1> QED BY <1>1, <1>2, Closes

LEMMA LaunchStep ==
  ASSUME BrowsersInv, NEW c \in Clients, B!Launch(c)
  PROVE  BrowsersInv'
  <1>1. browsing[c].pc = "launch" /\ UNCHANGED <<sessions, nextId, told, restarts, orphans>>
    BY DEF B!Launch
  <1>2. CASE B!Ends(c) /\ UNCHANGED <<running, launched>>
    BY <1>1, <1>2, BrowsersFacts, BrowsingMoves DEF B!Ends
  <1>3. CASE /\ launched < MaxStarts /\ launched' = launched + 1 /\ running' = running \cup {launched + 1}
             /\ browsing' = [browsing EXCEPT ![c] = [pc |-> "page", id |-> 0, browser |-> launched + 1]]
    <2>1. launched \in Nat /\ nextId \in Nat /\ launched + 1 \in B!Launched
      BY <1>3, BoundsAssumption DEF BrowsersInv, B!TypeOK, B!Launched
    <2>2. /\ browsing'[c].pc = "page" /\ browsing'[c].browser = launched + 1
          /\ \A d \in Clients \ {c} : browsing'[d] = browsing[d]
      BY <1>3, BrowsersFacts
    <2>3. B!TypeOK'
      <3>1. [pc |-> "page", id |-> 0, browser |-> launched + 1] \in CallTypeB
        BY <2>1, BoundsAssumption DEF CallTypeB
      <3>2. launched' \in 0..MaxStarts /\ running' \subseteq B!Launched
        BY <1>3, <2>1, BoundsAssumption DEF BrowsersInv, B!TypeOK
      <3> QED BY <1>1, <1>3, <3>1, <3>2, BrowsersFacts DEF BrowsersInv, B!TypeOK, CallTypeB
    <2>4. IdsGoUp'
      <3>1. Pages' = Pages \cup {c} /\ c \notin Pages
        BY <1>1, <2>2 DEF Pages
      <3>2. Cardinality(Pages') = Cardinality(Pages) + 1 /\ Cardinality(Pages) \in Nat
        BY <3>1, Finite, FS_AddElement DEF BrowsersInv
      <3> QED BY <1>1, <1>3, <2>1, <3>2 DEF BrowsersInv, IdsGoUp
    <2>5. CallsFit' /\ B!SessionsAreOwn'
      BY <1>1, <2>1, <2>2 DEF BrowsersInv, CallsFit, B!SessionsAreOwn
    <2>6. InReach'
      BY <1>1, <1>3, <2>2 DEF BrowsersInv, InReach, Pages
    <2>7. B!Opening' = B!Opening
      BY <1>1, <2>2 DEF B!Opening
    <2>8. Limited'
      BY <1>1, <2>7, LimitStays
    <2> QED BY <2>3, <2>4, <2>5, <2>6, <2>8 DEF BrowsersInv
  <1> QED BY <1>2, <1>3 DEF B!Launch

LEMMA OpenPageStep ==
  ASSUME BrowsersInv, NEW c \in Clients, B!OpenPage(c)
  PROVE  BrowsersInv'
  <1> DEFINE b == browsing[c].browser
  <1>1. browsing[c].pc = "page" /\ UNCHANGED <<running, launched, restarts>> /\ b \in B!Launched
    BY DEF B!OpenPage, BrowsersInv, CallsFit
  <1>2. browsing'[c] = B!NoCall /\ \A d \in Clients \ {c} : browsing'[d] = browsing[d]
    BY BrowsersFacts DEF B!OpenPage, B!Ends
  <1>3. browsing' \in [Clients -> CallTypeB] /\ B!NoCall.pc = "none"
    BY BrowsersFacts DEF B!OpenPage, B!Ends
  <1>4. Pages' = Pages \ {c} /\ c \in Pages
    BY <1>1, <1>2, <1>3 DEF Pages
  <1>5. /\ Cardinality(Pages') = Cardinality(Pages) - 1 /\ Cardinality(Pages') \in Nat /\ Cardinality(Pages) \in Nat
        /\ nextId \in Nat /\ launched \in Nat /\ launched <= MaxStarts /\ nextId <= MaxStarts /\ nextId >= 1
    <2>1. Cardinality(Pages') = Cardinality(Pages) - 1 /\ Cardinality(Pages) \in Nat /\ Cardinality(Pages') \in Nat
      BY <1>4, Finite, FS_RemoveElement, FS_CardinalityType DEF BrowsersInv
    <2> QED BY <2>1, BoundsAssumption DEF BrowsersInv, B!TypeOK, IdsGoUp
  <1>6. CASE c \in OAuth \/ (orphans' = orphans \cup {b} /\ UNCHANGED <<sessions, nextId, told>>)
    <2>1. /\ UNCHANGED <<sessions, nextId>> /\ orphans' = orphans \cup {b}
          /\ told' = told \/ (c \in OAuth /\ told' = [told EXCEPT ![c] = @ \cup {<<1, b>>}])
      BY <1>6 DEF B!OpenPage
    <2>2. told' \in [Clients -> SUBSET (B!Ids \X B!Launched)] /\ \A d \in Clients \ OAuth : told'[d] = told[d]
      <3>1. <<1, b>> \in B!Ids \X B!Launched
        BY <1>1, BoundsAssumption DEF B!Ids, B!Launched
      <3> QED BY <2>1, <3>1 DEF BrowsersInv, B!TypeOK
    <2>3. B!TypeOK'
      BY <1>1, <1>3, <2>1, <2>2 DEF BrowsersInv, B!TypeOK, CallTypeB
    <2>4. IdsGoUp' /\ B!SessionsAreOwn'
      BY <1>1, <1>5, <2>1, <2>2 DEF BrowsersInv, IdsGoUp, B!SessionsAreOwn
    <2>5. CallsFit'
      BY <1>2, <1>3, <2>1 DEF BrowsersInv, CallsFit
    <2>6. InReach'
      <3>1. \A d \in Pages \ {c} : d \in Pages' /\ browsing'[d].browser = browsing[d].browser
        BY <1>2, <1>4 DEF Pages
      <3>2. ASSUME NEW x \in running, x # b
            PROVE  \/ x \in orphans
                   \/ \E d \in Pages \ {c} : browsing[d].browser = x
                   \/ \E i \in DOMAIN sessions : sessions[i].browser = x
        BY <3>2 DEF BrowsersInv, InReach
      <3> HIDE DEF b
      <3> QED BY <1>1, <2>1, <3>1, <3>2 DEF InReach
    <2>7. B!Opening' \subseteq B!Opening
      BY <1>2, <1>3 DEF B!Opening
    <2>8. Limited'
      BY <2>1, <2>7, LimitStays
    <2> QED BY <2>3, <2>4, <2>5, <2>6, <2>8 DEF BrowsersInv
  <1>7. CASE /\ c \notin OAuth /\ nextId' = nextId + 1 /\ UNCHANGED orphans
             /\ sessions' = [i \in DOMAIN sessions \cup {B!NewId} |->
                          IF i = B!NewId THEN [browser |-> b, idle |-> FALSE] ELSE sessions[i]]
             /\ told' = [told EXCEPT ![c] = @ \cup {<<B!NewId, b>>}]
    <2>1. nextId \notin DOMAIN sessions
      BY <1>5 DEF BrowsersInv, IdsGoUp
    <2>2. /\ DOMAIN sessions' = DOMAIN sessions \cup {nextId}
          /\ sessions'[nextId] = [browser |-> b, idle |-> FALSE] /\ \A i \in DOMAIN sessions : sessions'[i] = sessions[i]
      BY <1>7, <2>1 DEF B!NewId
    <2>3. /\ told'[c] = told[c] \cup {<<nextId, b>>} /\ \A d \in Clients \ {c} : told'[d] = told[d]
          /\ told' \in [Clients -> SUBSET (B!Ids \X B!Launched)] /\ nextId \in B!Ids
      <3>1. <<nextId, b>> \in B!Ids \X B!Launched
        BY <1>1, <1>5 DEF B!Ids
      <3> QED BY <1>7, <3>1 DEF BrowsersInv, B!TypeOK, B!NewId
    <2>4. [browser |-> b, idle |-> FALSE] \in B!Session /\ [browser |-> b, idle |-> FALSE].browser = b
      BY <1>1 DEF B!Session
    <2>5. B!TypeOK'
      <3>1. DOMAIN sessions' \subseteq B!Ids /\ \A i \in DOMAIN sessions' : sessions'[i] \in B!Session
        BY <2>2, <2>3, <2>4 DEF BrowsersInv, B!TypeOK
      <3>2. nextId' \in 1..MaxStarts + 1
        BY <1>5, <1>7, BoundsAssumption
      <3> QED BY <1>1, <1>3, <1>7, <2>3, <3>1, <3>2 DEF BrowsersInv, B!TypeOK, CallTypeB
    <2>6. IdsGoUp'
      <3>1. nextId' + Cardinality(Pages') <= launched' + 1
        BY <1>1, <1>5, <1>7 DEF BrowsersInv, IdsGoUp
      <3>2. DOMAIN sessions' \subseteq 1..nextId' - 1
        BY <1>5, <1>7, <2>2 DEF BrowsersInv, IdsGoUp
      <3>3. \A d \in Clients \ OAuth : \A p \in told'[d] : p[1] < nextId'
        <4>1. \A d \in Clients \ OAuth : \A p \in told[d] : p[1] < nextId /\ p[1] \in Nat
          BY DEF BrowsersInv, IdsGoUp, B!TypeOK, B!Ids
        <4> QED BY <1>5, <1>7, <2>3, <4>1
      <3> QED BY <3>1, <3>2, <3>3 DEF IdsGoUp
    <2>7. CallsFit'
      <3>1. \A d \in Clients : browsing[d].id \in Nat
        BY BoundsAssumption DEF BrowsersInv, B!TypeOK
      <3> QED BY <1>2, <1>3, <1>5, <1>7, <2>2, <3>1 DEF BrowsersInv, CallsFit
    <2>8. InReach'
      <3>1. \A d \in Pages \ {c} : d \in Pages' /\ browsing'[d].browser = browsing[d].browser
        BY <1>2, <1>4 DEF Pages
      <3>2. ASSUME NEW x \in running, x # b
            PROVE  \/ x \in orphans
                   \/ \E d \in Pages \ {c} : browsing[d].browser = x
                   \/ \E i \in DOMAIN sessions : sessions[i].browser = x
        BY <3>2 DEF BrowsersInv, InReach
      <3>3. nextId \in DOMAIN sessions' /\ sessions'[nextId].browser = b
        BY <2>2, <2>4
      <3>4. \A i \in DOMAIN sessions : i \in DOMAIN sessions' /\ sessions'[i].browser = sessions[i].browser
        BY <2>2
      <3>5. orphans' = orphans /\ running' = running
        BY <1>1, <1>7
      <3> HIDE DEF b
      <3> QED BY <3>1, <3>2, <3>3, <3>4, <3>5 DEF InReach
    <2>9. B!SessionsAreOwn'
      <3>1. ASSUME NEW d \in Clients \ OAuth, NEW p \in told'[d], p[1] \in DOMAIN sessions'
            PROVE  sessions'[p[1]].browser = p[2]
        <4>1. CASE p \in told[d]
          <5>1. p[1] # nextId
            BY <1>5, <4>1 DEF BrowsersInv, IdsGoUp
          <5> QED BY <2>2, <3>1, <4>1, <5>1 DEF BrowsersInv, B!SessionsAreOwn
        <4>2. CASE p = <<nextId, b>>
          BY <2>2, <2>4, <4>2
        <4> QED BY <2>3, <3>1, <4>1, <4>2
      <3> QED BY <3>1 DEF B!SessionsAreOwn
    <2>10. Limited'
      <3>1. B!Opening' = B!Opening \ {c} /\ c \in B!Opening
        BY <1>1, <1>2, <1>3, <1>7 DEF B!Opening
      <3>2. Cardinality(B!Opening') = Cardinality(B!Opening) - 1
        BY <3>1, Finite, FS_RemoveElement DEF BrowsersInv
      <3>3. Cardinality(DOMAIN sessions') = Cardinality(DOMAIN sessions) + 1
        BY <2>1, <2>2, Finite, FS_AddElement DEF BrowsersInv
      <3> QED BY <3>2, <3>3, Finite DEF BrowsersInv, Limited
    <2> QED BY <2>5, <2>6, <2>7, <2>8, <2>9, <2>10 DEF BrowsersInv
  <1> QED BY <1>6, <1>7 DEF B!OpenPage

LEMMA BrowsersRestart ==
  ASSUME BrowsersInv, B!Restart
  PROVE  BrowsersInv'
  <1>1. /\ sessions' = <<>> /\ nextId' = 1 /\ running' = {} /\ restarts < MaxRestarts /\ restarts' = restarts + 1
        /\ browsing' = [c \in Clients |-> B!NoCall] /\ told' = [c \in Clients |-> {}]
        /\ UNCHANGED <<launched, orphans>>
    BY DEF B!Restart
  <1>2. DOMAIN sessions' = {} /\ B!NoCall.pc = "none" /\ B!NoCall \in CallTypeB
    BY <1>1, BoundsAssumption DEF B!NoCall, CallTypeB
  <1>3. B!TypeOK'
    <2>1. restarts' \in 0..MaxRestarts /\ 1 \in 1..MaxStarts + 1
      BY <1>1, BoundsAssumption DEF BrowsersInv, B!TypeOK
    <2> QED BY <1>1, <1>2, <2>1 DEF BrowsersInv, B!TypeOK, CallTypeB
  <1>4. Pages' = {} /\ B!Opening' = {} /\ Cardinality({}) = 0
    BY <1>1, <1>2, FS_EmptySet DEF Pages, B!Opening
  <1>5. IdsGoUp' /\ CallsFit' /\ InReach' /\ B!SessionsAreOwn'
    BY <1>1, <1>2, <1>4 DEF BrowsersInv, B!TypeOK, IdsGoUp, CallsFit, InReach, B!SessionsAreOwn
  <1>6. Limited'
    BY <1>2, <1>4, LimitStays
  <1> QED BY <1>3, <1>5, <1>6 DEF BrowsersInv

LEMMA BrowsersStep == BrowsersInv /\ [B!Next]_browsers => BrowsersInv'
  <1> SUFFICES ASSUME BrowsersInv, [B!Next]_browsers PROVE BrowsersInv'
    OBVIOUS
  <1>1. CASE B!Next
    BY <1>1, BeginStep, EvictStep, EvictedStep, LaunchStep, OpenPageStep, UseStep, NavigateStep, CloseStep, IdleStep,
       BrowsersRestart DEF B!Next
  <1>2. CASE UNCHANGED browsers
    BY <1>2 DEF browsers, BrowsersInv, B!TypeOK, IdsGoUp, Pages, CallsFit, InReach, B!SessionsAreOwn, Limited, B!Opening
  <1> QED BY <1>1, <1>2

LEMMA BrowsersKept == Spec => [](part = "browsers" => BrowsersInv)
  <1> DEFINE Inv == part = "browsers" => BrowsersInv
  <1>1. Init => Inv
    BY BrowsersInit DEF Init
  <1>2. Inv /\ [Next]_vars => Inv'
    BY BrowsersStep DEF Next, vars, browsers
  <1> QED BY <1>1, <1>2, PTL DEF Spec

(* A session ID stands for one browser, and no browser is out of reach but *)
(* those accounted for, however the calls of any number of clients         *)
(* interleave in a manager without a lock (BrowserManager).                *)
THEOREM Reached == Spec => []BrowsersAreInReach
  <1>1. (part = "browsers" => BrowsersInv) => BrowsersAreInReach
    <2> SUFFICES ASSUME BrowsersInv PROVE B!SessionsAreOwn /\ B!BrowsersBounded
      BY DEF BrowsersAreInReach
    <2>1. running \subseteq orphans \cup {browsing[c].browser : c \in Clients}
                            \cup {sessions[i].browser : i \in DOMAIN sessions}
      BY DEF BrowsersInv, InReach, Pages
    <2> QED BY <2>1, Counts DEF BrowsersInv, Limited, B!BrowsersBounded
  <1> QED BY <1>1, BrowsersKept, PTL

-----------------------------------------------------------------------------
(***************************************************************************)
(* The processes of a directory and port.                                  *)
(***************************************************************************)

Serves(p) == start[p] = "serving" /\ stop[p] = "no"

(* The port is with the process that looks at it or serves; and as long as *)
(* no two were busy together, one process at most is busy, none while one  *)
(* serves, and the record is of the process that goes on to serve.         *)
ProcessInv ==
  /\ P!TypeOK
  /\ \A p \in Pids : start[p] = "bound" \/ Serves(p) => port = p
  /\ \A p \in Pids : start[p] \in {"new", "probe", "bound", "open", "write"} => stop[p] = "no"
  /\ ~overlapped => /\ \A p, q \in P!Busy : p = q
                    /\ \A p \in Pids : Serves(p) => P!Busy = {} /\ lease = p
                    /\ \A p \in Pids : start[p] \in {"migrate", "listen"} /\ stop[p] = "no" => lease = p

LEMMA ProcessInit == P!Init => ProcessInv
  <1> SUFFICES ASSUME P!Init PROVE ProcessInv
    OBVIOUS
  <1>1. P!TypeOK
    <2>1. 0 \in 0..MaxCrashes
      BY BoundsAssumption
    <2> QED BY <2>1 DEF P!Init, P!TypeOK
  <1> QED BY <1>1 DEF P!Init, ProcessInv, Serves, P!Busy, P!Starting

LEMMA LoadConfigStep ==
  ASSUME ProcessInv, NEW p \in Pids, P!LoadConfig(p)
  PROVE  ProcessInv'
  <1> USE ProcessAssumption DEF ProcessInv
  <1>1. P!TypeOK'
    BY BoundsAssumption DEF P!TypeOK, P!LoadConfig, P!Moves, P!Exits, P!FirstStep
  <1>2. \A q \in Pids : (start[q] = "bound" \/ Serves(q) => port = q)'
    BY DEF P!TypeOK, P!LoadConfig, P!Moves, P!Exits, Serves, P!FirstStep
  <1>3. ~overlapped' => \A q, r \in P!Busy' : q = r
    BY DEF P!TypeOK, P!LoadConfig, P!Moves, P!Exits, P!Busy, P!Starting, P!FirstStep
  <1>4. ~overlapped' => \A q \in Pids : Serves(q)' => P!Busy' = {} /\ lease' = q
    BY DEF P!TypeOK, P!LoadConfig, P!Moves, P!Exits, P!Busy, P!Starting, Serves, P!FirstStep
  <1>5. ~overlapped' => \A q \in Pids : start'[q] \in {"migrate", "listen"} /\ stop'[q] = "no" => lease' = q
    BY DEF P!TypeOK, P!LoadConfig, P!Moves, P!Exits, P!Busy, P!Starting, P!FirstStep
  <1>6. \A q \in Pids : (start[q] \in {"new", "probe", "bound", "open", "write"} => stop[q] = "no")'
    BY DEF P!TypeOK, P!LoadConfig, P!Moves, P!Exits, P!FirstStep
  <1> QED BY <1>1, <1>2, <1>3, <1>4, <1>5, <1>6

LEMMA BindPortStep ==
  ASSUME ProcessInv, NEW p \in Pids, P!BindPort(p)
  PROVE  ProcessInv'
  <1> USE ProcessAssumption DEF ProcessInv
  <1>1. P!TypeOK'
    BY BoundsAssumption DEF P!TypeOK, P!BindPort, P!Moves, P!Exits, P!Overlaps
  <1>2. \A q \in Pids : (start[q] = "bound" \/ Serves(q) => port = q)'
    BY DEF P!TypeOK, P!BindPort, P!Moves, P!Exits, Serves, P!Overlaps
  <1>a. P!Busy' \subseteq P!Busy \cup {p}
    BY DEF P!TypeOK, P!BindPort, P!Moves, P!Exits, P!Busy, P!Starting
  <1>b. P!Busy' \subseteq P!Busy \/ (~overlapped' => P!Busy \subseteq {p})
    <2>1. CASE P!Overlaps(p)
      <3>1. ~overlapped' => P!Busy \ {p} = {}
        BY <2>1 DEF P!Overlaps
      <3> QED BY <3>1
    <2>2. CASE UNCHANGED stop /\ start'[p] = "exited"
      BY <2>2 DEF P!TypeOK, P!BindPort, P!Moves, P!Exits, P!Busy, P!Starting
    <2> QED BY <2>1, <2>2 DEF P!TypeOK, P!BindPort, P!Moves, P!Exits
  <1>c. ~overlapped' => ~overlapped
    BY DEF P!TypeOK, P!BindPort, P!Overlaps
  <1>3. ~overlapped' => \A q, r \in P!Busy' : q = r
    BY <1>a, <1>b, <1>c
  <1>4. ~overlapped' => \A q \in Pids : Serves(q)' => P!Busy' = {} /\ lease' = q
    BY DEF P!TypeOK, P!BindPort, P!Moves, P!Exits, P!Busy, P!Starting, Serves, P!Overlaps
  <1>5. ~overlapped' => \A q \in Pids : start'[q] \in {"migrate", "listen"} /\ stop'[q] = "no" => lease' = q
    BY DEF P!TypeOK, P!BindPort, P!Moves, P!Exits, P!Busy, P!Starting, P!Overlaps
  <1>6. \A q \in Pids : (start[q] \in {"new", "probe", "bound", "open", "write"} => stop[q] = "no")'
    BY DEF P!TypeOK, P!BindPort, P!Moves, P!Exits, P!Overlaps
  <1> QED BY <1>1, <1>2, <1>3, <1>4, <1>5, <1>6

LEMMA UnbindPortStep ==
  ASSUME ProcessInv, NEW p \in Pids, P!UnbindPort(p)
  PROVE  ProcessInv'
  <1> USE ProcessAssumption DEF ProcessInv
  <1>1. P!TypeOK'
    BY BoundsAssumption DEF P!TypeOK, P!UnbindPort, P!Moves, P!Exits
  <1>2. \A q \in Pids : (start[q] = "bound" \/ Serves(q) => port = q)'
    BY DEF P!TypeOK, P!UnbindPort, P!Moves, P!Exits, Serves
  <1>3. ~overlapped' => \A q, r \in P!Busy' : q = r
    BY DEF P!TypeOK, P!UnbindPort, P!Moves, P!Exits, P!Busy, P!Starting
  <1>4. ~overlapped' => \A q \in Pids : Serves(q)' => P!Busy' = {} /\ lease' = q
    BY DEF P!TypeOK, P!UnbindPort, P!Moves, P!Exits, P!Busy, P!Starting, Serves
  <1>5. ~overlapped' => \A q \in Pids : start'[q] \in {"migrate", "listen"} /\ stop'[q] = "no" => lease' = q
    BY DEF P!TypeOK, P!UnbindPort, P!Moves, P!Exits, P!Busy, P!Starting
  <1>6. \A q \in Pids : (start[q] \in {"new", "probe", "bound", "open", "write"} => stop[q] = "no")'
    BY DEF P!TypeOK, P!UnbindPort, P!Moves, P!Exits
  <1> QED BY <1>1, <1>2, <1>3, <1>4, <1>5, <1>6

LEMMA OpenRecordStep ==
  ASSUME ProcessInv, NEW p \in Pids, P!OpenRecord(p)
  PROVE  ProcessInv'
  <1> USE ProcessAssumption DEF ProcessInv
  <1>1. P!TypeOK'
    BY BoundsAssumption DEF P!TypeOK, P!OpenRecord, P!Moves, P!Exits
  <1>2. \A q \in Pids : (start[q] = "bound" \/ Serves(q) => port = q)'
    BY DEF P!TypeOK, P!OpenRecord, P!Moves, P!Exits, Serves
  <1>3. ~overlapped' => \A q, r \in P!Busy' : q = r
    BY DEF P!TypeOK, P!OpenRecord, P!Moves, P!Exits, P!Busy, P!Starting
  <1>4. ~overlapped' => \A q \in Pids : Serves(q)' => P!Busy' = {} /\ lease' = q
    BY DEF P!TypeOK, P!OpenRecord, P!Moves, P!Exits, P!Busy, P!Starting, Serves
  <1>5. ~overlapped' => \A q \in Pids : start'[q] \in {"migrate", "listen"} /\ stop'[q] = "no" => lease' = q
    BY DEF P!TypeOK, P!OpenRecord, P!Moves, P!Exits, P!Busy, P!Starting
  <1>6. \A q \in Pids : (start[q] \in {"new", "probe", "bound", "open", "write"} => stop[q] = "no")'
    BY DEF P!TypeOK, P!OpenRecord, P!Moves, P!Exits
  <1> QED BY <1>1, <1>2, <1>3, <1>4, <1>5, <1>6

LEMMA WriteRecordStep ==
  ASSUME ProcessInv, NEW p \in Pids, P!WriteRecord(p)
  PROVE  ProcessInv'
  <1> USE ProcessAssumption DEF ProcessInv
  <1>1. P!TypeOK'
    BY BoundsAssumption DEF P!TypeOK, P!WriteRecord, P!Moves, P!Exits
  <1>2. \A q \in Pids : (start[q] = "bound" \/ Serves(q) => port = q)'
    BY DEF P!TypeOK, P!WriteRecord, P!Moves, P!Exits, Serves
  <1>3. ~overlapped' => \A q, r \in P!Busy' : q = r
    BY DEF P!TypeOK, P!WriteRecord, P!Moves, P!Exits, P!Busy, P!Starting
  <1>4. ~overlapped' => \A q \in Pids : Serves(q)' => P!Busy' = {} /\ lease' = q
    BY DEF P!TypeOK, P!WriteRecord, P!Moves, P!Exits, P!Busy, P!Starting, Serves
  <1>5. ~overlapped' => \A q \in Pids : start'[q] \in {"migrate", "listen"} /\ stop'[q] = "no" => lease' = q
    BY DEF P!TypeOK, P!WriteRecord, P!Moves, P!Exits, P!Busy, P!Starting
  <1>6. \A q \in Pids : (start[q] \in {"new", "probe", "bound", "open", "write"} => stop[q] = "no")'
    BY DEF P!TypeOK, P!WriteRecord, P!Moves, P!Exits
  <1> QED BY <1>1, <1>2, <1>3, <1>4, <1>5, <1>6

LEMMA MigrateStep ==
  ASSUME ProcessInv, NEW p \in Pids, P!Migrate(p)
  PROVE  ProcessInv'
  <1> USE ProcessAssumption DEF ProcessInv
  <1>1. P!TypeOK'
    BY BoundsAssumption DEF P!TypeOK, P!Migrate, P!Moves, P!Exits, P!Failing
  <1>2. \A q \in Pids : (start[q] = "bound" \/ Serves(q) => port = q)'
    BY DEF P!TypeOK, P!Migrate, P!Moves, P!Exits, Serves, P!Failing
  <1>3. ~overlapped' => \A q, r \in P!Busy' : q = r
    BY DEF P!TypeOK, P!Migrate, P!Moves, P!Exits, P!Busy, P!Starting, P!Failing
  <1>4. ~overlapped' => \A q \in Pids : Serves(q)' => P!Busy' = {} /\ lease' = q
    BY DEF P!TypeOK, P!Migrate, P!Moves, P!Exits, P!Busy, P!Starting, Serves, P!Failing
  <1>5. ~overlapped' => \A q \in Pids : start'[q] \in {"migrate", "listen"} /\ stop'[q] = "no" => lease' = q
    BY DEF P!TypeOK, P!Migrate, P!Moves, P!Exits, P!Busy, P!Starting, P!Failing
  <1>6. \A q \in Pids : (start[q] \in {"new", "probe", "bound", "open", "write"} => stop[q] = "no")'
    BY DEF P!TypeOK, P!Migrate, P!Moves, P!Exits, P!Failing
  <1> QED BY <1>1, <1>2, <1>3, <1>4, <1>5, <1>6

LEMMA ListenStep ==
  ASSUME ProcessInv, NEW p \in Pids, P!Listen(p)
  PROVE  ProcessInv'
  <1> USE ProcessAssumption DEF ProcessInv
  <1>1. P!TypeOK'
    BY BoundsAssumption DEF P!TypeOK, P!Listen, P!Moves, P!Exits, P!Failing
  <1>2. \A q \in Pids : (start[q] = "bound" \/ Serves(q) => port = q)'
    BY DEF P!TypeOK, P!Listen, P!Moves, P!Exits, Serves, P!Failing
  <1>3. ~overlapped' => \A q, r \in P!Busy' : q = r
    BY DEF P!TypeOK, P!Listen, P!Moves, P!Exits, P!Busy, P!Starting, P!Failing
  <1>4. ~overlapped' => \A q \in Pids : Serves(q)' => P!Busy' = {} /\ lease' = q
    BY DEF P!TypeOK, P!Listen, P!Moves, P!Exits, P!Busy, P!Starting, Serves, P!Failing
  <1>5. ~overlapped' => \A q \in Pids : start'[q] \in {"migrate", "listen"} /\ stop'[q] = "no" => lease' = q
    BY DEF P!TypeOK, P!Listen, P!Moves, P!Exits, P!Busy, P!Starting, P!Failing
  <1>6. \A q \in Pids : (start[q] \in {"new", "probe", "bound", "open", "write"} => stop[q] = "no")'
    BY DEF P!TypeOK, P!Listen, P!Moves, P!Exits, P!Failing
  <1> QED BY <1>1, <1>2, <1>3, <1>4, <1>5, <1>6

LEMMA SignalStep ==
  ASSUME ProcessInv, NEW p \in Pids, P!Signal(p)
  PROVE  ProcessInv'
  <1> USE ProcessAssumption DEF ProcessInv
  <1>1. P!TypeOK'
    BY BoundsAssumption DEF P!TypeOK, P!Signal, P!Moves, P!Exits, P!Overlaps
  <1>2. \A q \in Pids : (start[q] = "bound" \/ Serves(q) => port = q)'
    BY DEF P!TypeOK, P!Signal, P!Moves, P!Exits, Serves, P!Overlaps
  <1>a. P!Busy' \subseteq P!Busy \cup {p}
    BY DEF P!TypeOK, P!Signal, P!Moves, P!Exits, P!Busy, P!Starting
  <1>b. P!Busy' \subseteq P!Busy \/ (~overlapped' => P!Busy \subseteq {p})
    <2>1. CASE P!Overlaps(p)
      <3>1. ~overlapped' => P!Busy \ {p} = {}
        BY <2>1 DEF P!Overlaps
      <3> QED BY <3>1
    <2>2. CASE UNCHANGED stop /\ start'[p] = "exited"
      BY <2>2 DEF P!TypeOK, P!Signal, P!Moves, P!Exits, P!Busy, P!Starting
    <2> QED BY <2>1, <2>2 DEF P!TypeOK, P!Signal, P!Moves, P!Exits
  <1>c. ~overlapped' => ~overlapped
    BY DEF P!TypeOK, P!Signal, P!Overlaps
  <1>3. ~overlapped' => \A q, r \in P!Busy' : q = r
    BY <1>a, <1>b, <1>c
  <1>4. ~overlapped' => \A q \in Pids : Serves(q)' => P!Busy' = {} /\ lease' = q
    BY DEF P!TypeOK, P!Signal, P!Moves, P!Exits, P!Busy, P!Starting, Serves, P!Overlaps
  <1>5. ~overlapped' => \A q \in Pids : start'[q] \in {"migrate", "listen"} /\ stop'[q] = "no" => lease' = q
    BY DEF P!TypeOK, P!Signal, P!Moves, P!Exits, P!Busy, P!Starting, P!Overlaps
  <1>6. \A q \in Pids : (start[q] \in {"new", "probe", "bound", "open", "write"} => stop[q] = "no")'
    BY DEF P!TypeOK, P!Signal, P!Moves, P!Exits, P!Overlaps
  <1> QED BY <1>1, <1>2, <1>3, <1>4, <1>5, <1>6

LEMMA CloseAppStep ==
  ASSUME ProcessInv, NEW p \in Pids, P!CloseApp(p)
  PROVE  ProcessInv'
  <1> USE ProcessAssumption DEF ProcessInv
  <1>1. P!TypeOK'
    BY BoundsAssumption DEF P!TypeOK, P!CloseApp, P!Moves, P!Exits
  <1>2. \A q \in Pids : (start[q] = "bound" \/ Serves(q) => port = q)'
    BY DEF P!TypeOK, P!CloseApp, P!Moves, P!Exits, Serves
  <1>3. ~overlapped' => \A q, r \in P!Busy' : q = r
    BY DEF P!TypeOK, P!CloseApp, P!Moves, P!Exits, P!Busy, P!Starting
  <1>4. ~overlapped' => \A q \in Pids : Serves(q)' => P!Busy' = {} /\ lease' = q
    BY DEF P!TypeOK, P!CloseApp, P!Moves, P!Exits, P!Busy, P!Starting, Serves
  <1>5. ~overlapped' => \A q \in Pids : start'[q] \in {"migrate", "listen"} /\ stop'[q] = "no" => lease' = q
    BY DEF P!TypeOK, P!CloseApp, P!Moves, P!Exits, P!Busy, P!Starting
  <1>6. \A q \in Pids : (start[q] \in {"new", "probe", "bound", "open", "write"} => stop[q] = "no")'
    BY DEF P!TypeOK, P!CloseApp, P!Moves, P!Exits
  <1> QED BY <1>1, <1>2, <1>3, <1>4, <1>5, <1>6

LEMMA ReadRecordStep ==
  ASSUME ProcessInv, NEW p \in Pids, P!ReadRecord(p)
  PROVE  ProcessInv'
  <1> USE ProcessAssumption DEF ProcessInv
  <1>1. P!TypeOK'
    BY BoundsAssumption DEF P!TypeOK, P!ReadRecord, P!Moves, P!Exits, P!IsMine
  <1>2. \A q \in Pids : (start[q] = "bound" \/ Serves(q) => port = q)'
    BY DEF P!TypeOK, P!ReadRecord, P!Moves, P!Exits, Serves, P!IsMine
  <1>3. ~overlapped' => \A q, r \in P!Busy' : q = r
    BY DEF P!TypeOK, P!ReadRecord, P!Moves, P!Exits, P!Busy, P!Starting, P!IsMine
  <1>4. ~overlapped' => \A q \in Pids : Serves(q)' => P!Busy' = {} /\ lease' = q
    BY DEF P!TypeOK, P!ReadRecord, P!Moves, P!Exits, P!Busy, P!Starting, Serves, P!IsMine
  <1>5. ~overlapped' => \A q \in Pids : start'[q] \in {"migrate", "listen"} /\ stop'[q] = "no" => lease' = q
    BY DEF P!TypeOK, P!ReadRecord, P!Moves, P!Exits, P!Busy, P!Starting, P!IsMine
  <1>6. \A q \in Pids : (start[q] \in {"new", "probe", "bound", "open", "write"} => stop[q] = "no")'
    BY DEF P!TypeOK, P!ReadRecord, P!Moves, P!Exits, P!IsMine
  <1> QED BY <1>1, <1>2, <1>3, <1>4, <1>5, <1>6

LEMMA UnlinkStep ==
  ASSUME ProcessInv, NEW p \in Pids, P!Unlink(p)
  PROVE  ProcessInv'
  <1> USE ProcessAssumption DEF ProcessInv
  <1>1. P!TypeOK'
    BY BoundsAssumption DEF P!TypeOK, P!Unlink, P!Moves, P!Exits
  <1>2. \A q \in Pids : (start[q] = "bound" \/ Serves(q) => port = q)'
    BY DEF P!TypeOK, P!Unlink, P!Moves, P!Exits, Serves
  <1>3. ~overlapped' => \A q, r \in P!Busy' : q = r
    BY DEF P!TypeOK, P!Unlink, P!Moves, P!Exits, P!Busy, P!Starting
  <1>4. ~overlapped' => \A q \in Pids : Serves(q)' => P!Busy' = {} /\ lease' = q
    BY DEF P!TypeOK, P!Unlink, P!Moves, P!Exits, P!Busy, P!Starting, Serves
  <1>5. ~overlapped' => \A q \in Pids : start'[q] \in {"migrate", "listen"} /\ stop'[q] = "no" => lease' = q
    BY DEF P!TypeOK, P!Unlink, P!Moves, P!Exits, P!Busy, P!Starting
  <1>6. \A q \in Pids : (start[q] \in {"new", "probe", "bound", "open", "write"} => stop[q] = "no")'
    BY DEF P!TypeOK, P!Unlink, P!Moves, P!Exits
  <1> QED BY <1>1, <1>2, <1>3, <1>4, <1>5, <1>6

LEMMA SecondSignalStep ==
  ASSUME ProcessInv, NEW p \in Pids, P!SecondSignal(p)
  PROVE  ProcessInv'
  <1> USE ProcessAssumption DEF ProcessInv
  <1>1. P!TypeOK'
    BY BoundsAssumption DEF P!TypeOK, P!SecondSignal, P!Moves, P!Exits
  <1>2. \A q \in Pids : (start[q] = "bound" \/ Serves(q) => port = q)'
    BY DEF P!TypeOK, P!SecondSignal, P!Moves, P!Exits, Serves
  <1>3. ~overlapped' => \A q, r \in P!Busy' : q = r
    BY DEF P!TypeOK, P!SecondSignal, P!Moves, P!Exits, P!Busy, P!Starting
  <1>4. ~overlapped' => \A q \in Pids : Serves(q)' => P!Busy' = {} /\ lease' = q
    BY DEF P!TypeOK, P!SecondSignal, P!Moves, P!Exits, P!Busy, P!Starting, Serves
  <1>5. ~overlapped' => \A q \in Pids : start'[q] \in {"migrate", "listen"} /\ stop'[q] = "no" => lease' = q
    BY DEF P!TypeOK, P!SecondSignal, P!Moves, P!Exits, P!Busy, P!Starting
  <1>6. \A q \in Pids : (start[q] \in {"new", "probe", "bound", "open", "write"} => stop[q] = "no")'
    BY DEF P!TypeOK, P!SecondSignal, P!Moves, P!Exits
  <1> QED BY <1>1, <1>2, <1>3, <1>4, <1>5, <1>6

LEMMA CrashStep ==
  ASSUME ProcessInv, NEW p \in Pids, P!Crash(p)
  PROVE  ProcessInv'
  <1> USE ProcessAssumption DEF ProcessInv
  <1>1. P!TypeOK'
    BY BoundsAssumption DEF P!TypeOK, P!Crash, P!Moves, P!Exits
  <1>2. \A q \in Pids : (start[q] = "bound" \/ Serves(q) => port = q)'
    BY DEF P!TypeOK, P!Crash, P!Moves, P!Exits, Serves
  <1>3. ~overlapped' => \A q, r \in P!Busy' : q = r
    BY DEF P!TypeOK, P!Crash, P!Moves, P!Exits, P!Busy, P!Starting
  <1>4. ~overlapped' => \A q \in Pids : Serves(q)' => P!Busy' = {} /\ lease' = q
    BY DEF P!TypeOK, P!Crash, P!Moves, P!Exits, P!Busy, P!Starting, Serves
  <1>5. ~overlapped' => \A q \in Pids : start'[q] \in {"migrate", "listen"} /\ stop'[q] = "no" => lease' = q
    BY DEF P!TypeOK, P!Crash, P!Moves, P!Exits, P!Busy, P!Starting
  <1>6. \A q \in Pids : (start[q] \in {"new", "probe", "bound", "open", "write"} => stop[q] = "no")'
    BY DEF P!TypeOK, P!Crash, P!Moves, P!Exits
  <1> QED BY <1>1, <1>2, <1>3, <1>4, <1>5, <1>6

LEMMA ProcessStep == ProcessInv /\ [P!Next]_process => ProcessInv'
  <1> SUFFICES ASSUME ProcessInv, [P!Next]_process PROVE ProcessInv'
    OBVIOUS
  <1>1. CASE P!Next
    BY <1>1, LoadConfigStep, BindPortStep, UnbindPortStep, OpenRecordStep, WriteRecordStep, MigrateStep, ListenStep,
       SignalStep, CloseAppStep, ReadRecordStep, UnlinkStep, SecondSignalStep, CrashStep DEF P!Next
  <1>2. CASE UNCHANGED process
    BY <1>2 DEF process, ProcessInv, P!TypeOK, Serves, P!Busy, P!Starting
  <1> QED BY <1>1, <1>2

LEMMA ProcessKept == Spec => [](part = "process" => ProcessInv)
  <1> DEFINE Inv == part = "process" => ProcessInv
  <1>1. Init => Inv
    BY ProcessInit DEF Init
  <1>2. Inv /\ [Next]_vars => Inv'
    BY ProcessStep DEF Next, vars, process
  <1> QED BY <1>1, <1>2, PTL DEF Spec

(* While processes do not start or stop at the same time, the ownership    *)
(* record names the runtime that serves, whoever was refused the port or   *)
(* was killed before (acquireRuntimeOwnership and release).                *)
THEOREM LeaseNamed == Spec => []LeaseNamesRuntime
  <1>1. (part = "process" => ProcessInv) => LeaseNamesRuntime
    BY DEF ProcessInv, LeaseNamesRuntime, P!LeaseNamesRuntime, Serves
  <1> QED BY <1>1, ProcessKept, PTL

-----------------------------------------------------------------------------
(***************************************************************************)
(* Diagnostics.                                                            *)
(***************************************************************************)

(* A link that was found to work was up at that time; before the end there *)
(* is no verdict.                                                          *)
LinksInv ==
  /\ D!TypeOK
  /\ up \subseteq wasUp /\ D!Links \ up \subseteq wasDown
  /\ probe # "done" => report = D!Unknown
  /\ probe \in {"connector", "external", "api"} => "server" \in wasUp
  /\ probe \in {"external", "api"} => hosted \/ "connector" \in wasUp
  /\ probe = "api" => "external" \in wasUp
  /\ D!DiagnosisIsRight

LEMMA UnknownIsNoVerdict ==
  /\ D!Unknown \in [D!Parts -> D!Verdicts]
  /\ \A x \in D!Parts : D!Unknown[x] # "good" /\ D!Unknown[x] # "bad"
  BY DEF D!Unknown, D!Verdicts, D!Parts

LEMMA LinksInit == D!Init => LinksInv
  <1> SUFFICES ASSUME D!Init PROVE LinksInv
    OBVIOUS
  <1>1. D!TypeOK
    BY UnknownIsNoVerdict, BoundsAssumption DEF D!Init, D!TypeOK
  <1>2. D!DiagnosisIsRight
    BY UnknownIsNoVerdict DEF D!Init, D!DiagnosisIsRight
  <1> QED BY <1>1, <1>2 DEF D!Init, LinksInv

LEMMA VerdictsAreVerdicts ==
  ASSUME NEW bad, NEW good, NEW rest \in D!Verdicts, D!Ends(bad, good, rest)
  PROVE  /\ probe' = "done" /\ report' \in [D!Parts -> D!Verdicts]
         /\ \A x \in D!Parts : report'[x] = IF x \in bad THEN "bad" ELSE IF x \in good THEN "good" ELSE rest
  BY DEF D!Ends, D!Verdicts

LEMMA ServerStep == LinksInv /\ D!ProbeServer => LinksInv'
  <1> SUFFICES ASSUME LinksInv, D!ProbeServer PROVE LinksInv'
    OBVIOUS
  <1> USE DEF LinksInv, D!ProbeServer, D!Keeps, D!TypeOK
  <1>1. CASE "server" \in up
    <2>1. D!DiagnosisIsRight'
      BY <1>1 DEF D!DiagnosisIsRight, D!Chain
    <2> QED BY <1>1, <2>1
  <1>2. CASE "server" \notin up
    <2>1. D!Ends({"server"}, {}, "unknown")
      BY <1>2
    <2>2. /\ probe' = "done" /\ report' \in [D!Parts -> D!Verdicts]
          /\ \A x \in D!Parts : report'[x] = IF x = "server" THEN "bad" ELSE "unknown"
      BY <2>1, VerdictsAreVerdicts DEF D!Verdicts
    <2>3. "server" \in wasDown
      BY <1>2 DEF D!Links
    <2>4. D!DiagnosisIsRight'
      BY <2>2, <2>3 DEF D!DiagnosisIsRight, D!Chain
    <2> QED BY <2>2, <2>4
  <1> QED BY <1>1, <1>2

LEMMA ConnectorStep == LinksInv /\ D!ProbeConnector => LinksInv'
  <1> SUFFICES ASSUME LinksInv, D!ProbeConnector PROVE LinksInv'
    OBVIOUS
  <1> USE DEF LinksInv, D!ProbeConnector, D!Keeps, D!TypeOK
  <1>1. CASE D!ConnectorRuns
    <2>1. D!DiagnosisIsRight'
      BY <1>1 DEF D!DiagnosisIsRight, D!Chain
    <2> QED BY <1>1, <2>1 DEF D!ConnectorRuns
  <1>2. CASE ~D!ConnectorRuns
    <2>1. D!Ends({"tunnel"}, {"server"}, "bad")
      BY <1>2
    <2>2. /\ probe' = "done" /\ report' \in [D!Parts -> D!Verdicts]
          /\ \A x \in D!Parts : report'[x] = IF x = "server" THEN "good" ELSE "bad"
      BY <2>1, VerdictsAreVerdicts DEF D!Verdicts
    <2>3. "connector" \in wasDown /\ ~hosted
      BY <1>2 DEF D!Links, D!ConnectorRuns
    <2>4. "server" \in wasUp
      OBVIOUS
    <2>5. D!DiagnosisIsRight'
      BY <2>2, <2>3, <2>4 DEF D!DiagnosisIsRight, D!Chain
    <2> QED BY <2>2, <2>5
  <1> QED BY <1>1, <1>2

LEMMA ExternalStep == LinksInv /\ D!ProbeExternal => LinksInv'
  <1> SUFFICES ASSUME LinksInv, D!ProbeExternal PROVE LinksInv'
    OBVIOUS
  <1> USE DEF LinksInv, D!ProbeExternal, D!Keeps, D!TypeOK
  <1>1. CASE "external" \in up
    <2>1. D!DiagnosisIsRight'
      BY <1>1 DEF D!DiagnosisIsRight, D!Chain
    <2> QED BY <1>1, <2>1
  <1>2. CASE "external" \notin up
    <2>1. D!Ends({"tunnel", "external"}, {"server"}, "unknown")
      BY <1>2
    <2>2. /\ probe' = "done" /\ report' \in [D!Parts -> D!Verdicts]
          /\ \A x \in D!Parts : report'[x] = IF x \in {"tunnel", "external"} THEN "bad"
                                             ELSE IF x = "server" THEN "good" ELSE "unknown"
      BY <2>1, VerdictsAreVerdicts DEF D!Verdicts
    <2>3. "external" \in wasDown
      BY <1>2 DEF D!Links
    <2>4. "server" \in wasUp
      OBVIOUS
    <2>5. D!DiagnosisIsRight'
      BY <2>2, <2>3, <2>4 DEF D!DiagnosisIsRight, D!Chain
    <2> QED BY <2>2, <2>5
  <1> QED BY <1>1, <1>2

LEMMA ApiStep == LinksInv /\ D!ProbeApi => LinksInv'
  <1> SUFFICES ASSUME LinksInv, D!ProbeApi PROVE LinksInv'
    OBVIOUS
  <1> USE DEF LinksInv, D!ProbeApi, D!Keeps, D!TypeOK
  <1>1. D!Ends({"openapi", "auth"} \ up, {"server", "tunnel", "external"} \cup (up \cap {"openapi", "auth"}), "unknown")
    OBVIOUS
  <1>2. /\ probe' = "done" /\ report' \in [D!Parts -> D!Verdicts]
        /\ \A x \in D!Parts : report'[x] = IF x \in {"openapi", "auth"} \ up THEN "bad" ELSE "good"
    BY <1>1, VerdictsAreVerdicts DEF D!Verdicts, D!Parts
  <1>3. {"openapi", "auth"} \ up \subseteq wasDown /\ {"openapi", "auth"} \cap up \subseteq wasUp
    BY DEF D!Links
  <1>4. {"server", "external"} \subseteq wasUp /\ (hosted \/ "connector" \in wasUp)
    OBVIOUS
  <1>5. D!DiagnosisIsRight'
    <2> SUFFICES ASSUME NEW x \in D!Parts
                 PROVE  /\ report'[x] = "good" => D!Chain(x)' \subseteq wasUp'
                        /\ report'[x] = "bad" => D!Chain(x)' \cap wasDown' # {}
      BY DEF D!DiagnosisIsRight
    <2>1. CASE x \in {"openapi", "auth"} \ up
      BY <2>1, <1>2, <1>3 DEF D!Chain
    <2>2. CASE x \notin {"openapi", "auth"} \ up
      BY <2>2, <1>2, <1>3, <1>4 DEF D!Chain
    <2> QED BY <2>1, <2>2
  <1> QED BY <1>2, <1>5

LEMMA ChangeStep == LinksInv /\ D!Change => LinksInv'
  <1> SUFFICES ASSUME LinksInv, D!Change PROVE LinksInv'
    OBVIOUS
  <1> USE DEF LinksInv
  <1>1. /\ wasUp \subseteq wasUp' /\ wasDown \subseteq wasDown'
        /\ up' \subseteq wasUp' /\ D!Links \ up' \subseteq wasDown'
    BY DEF D!Change
  <1>2. D!TypeOK'
    BY BoundsAssumption DEF D!Change, D!TypeOK
  <1>3. D!DiagnosisIsRight'
    BY UnknownIsNoVerdict DEF D!Change, D!DiagnosisIsRight
  <1> QED BY <1>1, <1>2, <1>3 DEF D!Change

LEMMA LinksStep == LinksInv /\ [D!Next]_links => LinksInv'
  <1> SUFFICES ASSUME LinksInv, [D!Next]_links PROVE LinksInv'
    OBVIOUS
  <1>1. CASE D!Next
    BY <1>1, ServerStep, ConnectorStep, ExternalStep, ApiStep, ChangeStep DEF D!Next
  <1>2. CASE UNCHANGED links
    BY <1>2 DEF links, LinksInv, D!TypeOK, D!DiagnosisIsRight, D!Chain
  <1> QED BY <1>1, <1>2

LEMMA LinksKept == Spec => [](part = "links" => LinksInv)
  <1> DEFINE Inv == part = "links" => LinksInv
  <1>1. Init => Inv
    BY LinksInit DEF Init
  <1>2. Inv /\ [Next]_vars => Inv'
    BY LinksStep DEF Next, vars, links
  <1> QED BY <1>1, <1>2, PTL DEF Spec

(* The diagnosis blames no part that was fine all along and clears none    *)
(* that was down all along, however the links come and go                  *)
(* (RuntimeDiagnostics.diagnose).                                          *)
THEOREM Diagnosed == Spec => []DiagnosisIsRight
  <1>1. (part = "links" => LinksInv) => DiagnosisIsRight
    BY DEF LinksInv, DiagnosisIsRight
  <1> QED BY <1>1, LinksKept, PTL

-----------------------------------------------------------------------------
(***************************************************************************)
(* The skills.                                                             *)
(***************************************************************************)

CallType ==
  [op: S!Operations \cup {"none"}, own: BOOLEAN, skill: SkillIds \cup {NoIndex}, path: S!Names \cup {NoIndex},
   pc: {"idle", "load", "find", "walk", "open", "read", "done"},
   todo: SUBSET (S!Names \X S!Kinds), found: SUBSET S!Names,
   answer: {"none", "ok", "error", "unindexed", "reject", "review", "recommended"}]

SkillsTyped ==
  /\ S!TypeOK
  /\ build \in [pc: {"idle", "scan", "write"}, todo: S!Index, found: S!Index]
  /\ call \in CallType
  /\ call.pc # "idle" => call.op \in S!Operations /\ call.skill \in SkillIds /\ call.path \in S!Names
  /\ call.pc = "walk" => call.op = "list_resources"
  /\ call.pc = "open" => call.op = "read_resource"
  /\ call.pc = "find" => call.op # "list"

(* What a list may offer of a skill as it is.                              *)
Offerable(s) == {n \in S!Names : n # Entry /\ tree[s][n] \in {"file", "big"}}

(* A skill that was not edited since its list began is as it was listed.   *)
ListsAreTrue == \A s \in SkillIds \ touched : listed[s] \subseteq Offerable(s)

(* What the walk of such a skill found is there, and what it has not found *)
(* is still to come.                                                       *)
WalkIsTrue ==
  call.pc = "walk" /\ call.skill \notin touched =>
    /\ \A e \in call.todo : e[2] = tree[call.skill][e[1]] /\ e[2] # "none"
    /\ call.found \subseteq Offerable(call.skill)
    /\ \A n \in S!Names : n # Entry /\ tree[call.skill][n] = "file" => n \in call.found \/ <<n, "file">> \in call.todo

(* What such a skill's resource was looked at, it still is.                *)
LookIsTrue ==
  call.pc = "read" /\ call.op = "read_resource" /\ call.skill \notin touched => tree[call.skill][S!Candidate] = "file"

(* A call that has not looked for its directory has found nothing.         *)
FindIsFresh == call.pc \in {"load", "find"} => call.found = {}

SkillsInv == FindIsFresh /\ SkillsTyped /\ ListsAreTrue /\ WalkIsTrue /\ LookIsTrue /\ S!ListedIsReadable

LEMMA SkillsInit == S!Init => SkillsInv
  <1> SUFFICES ASSUME S!Init PROVE SkillsInv
    OBVIOUS
  <1>1. call = S!Idle /\ S!Idle \in CallType /\ S!Idle.pc = "idle"
    BY DEF S!Init, S!Idle, CallType
  <1>2. SkillsTyped
    <2>1. 0 \in 0..MaxEdits
      BY BoundsAssumption
    <2> QED BY <1>1, <2>1 DEF S!Init, SkillsTyped, S!TypeOK, S!Index, CallType
  <1>3. FindIsFresh /\ ListsAreTrue /\ WalkIsTrue /\ LookIsTrue /\ S!ListedIsReadable
    BY <1>1 DEF S!Init, FindIsFresh, ListsAreTrue, WalkIsTrue, LookIsTrue, S!ListedIsReadable
  <1> QED BY <1>2, <1>3 DEF SkillsInv

(* Steps that only move the call: where it was not at an answer, and is at *)
(* none of a list or a resource.                                           *)
LEMMA CallMoves ==
  ASSUME SkillsInv, NEW r, r \in CallType, call' = r, UNCHANGED <<tree, text, touched, listed, edits>>,
         registry' \in S!Index \cup {NoIndex, Torn}, cached' \in S!Index \cup {NoIndex}, build' = build,
         r.pc # "idle" => r.op \in S!Operations /\ r.skill \in SkillIds /\ r.path \in S!Names,
         r.pc = "walk" => r.op = "list_resources",
         r.pc = "open" => r.op = "read_resource",
         r.pc = "find" => r.op # "list"
  PROVE  SkillsTyped' /\ ListsAreTrue'
  <1>1. SkillsTyped'
    BY DEF SkillsInv, SkillsTyped, S!TypeOK, CallType
  <1>2. ListsAreTrue'
    BY DEF SkillsInv, ListsAreTrue, Offerable
  <1> QED BY <1>1, <1>2

LEMMA CallFacts ==
  ASSUME SkillsInv
  PROVE  /\ call \in CallType
         /\ call.pc # "idle" => call.op \in S!Operations /\ call.skill \in SkillIds /\ call.path \in S!Names
         /\ \A pc : LET r == [call EXCEPT !.pc = pc] IN
              r.pc = pc /\ r.op = call.op /\ r.skill = call.skill /\ r.path = call.path /\ r.todo = call.todo /\ r.found = call.found
              /\ r.answer = call.answer /\ r.own = call.own
         /\ \A a : LET r == [call EXCEPT !.pc = "done", !.answer = a] IN
              r.pc = "done" /\ r.op = call.op /\ r.skill = call.skill /\ r.path = call.path /\ r.todo = call.todo /\ r.found = call.found
              /\ r.answer = a /\ r.own = call.own
  BY DEF SkillsInv, SkillsTyped, CallType

LEMMA BuildStep ==
  ASSUME SkillsInv, S!BuildStarts \/ S!ScanDirectory \/ S!TruncateIndex \/ S!WriteIndex
  PROVE  SkillsInv'
  <1>1. UNCHANGED <<tree, text, cached, call, listed, touched>>
    BY DEF S!BuildStarts, S!ScanDirectory, S!TruncateIndex, S!WriteIndex
  <1>2. build' \in [pc: {"idle", "scan", "write"}, todo: S!Index, found: S!Index]
    <2>1. build \in [pc: {"idle", "scan", "write"}, todo: S!Index, found: S!Index]
      BY DEF SkillsInv, SkillsTyped
    <2>2. CASE S!BuildStarts
      BY <2>2 DEF S!BuildStarts, S!Index
    <2>3. CASE S!ScanDirectory
      <3>1. PICK s \in build.todo :
              build' = [build EXCEPT !.todo = @ \ {s},
                                     !.found = IF tree[s][Entry] = "none" THEN @ ELSE @ \cup {s}]
        BY <2>3 DEF S!ScanDirectory
      <3>2. CASE tree[s][Entry] = "none"
        BY <3>1, <3>2, <2>1 DEF S!Index
      <3>3. CASE tree[s][Entry] # "none"
        BY <3>1, <3>3, <2>1 DEF S!Index
      <3> QED BY <3>2, <3>3
    <2>4. CASE S!TruncateIndex
      BY <2>1, <2>4 DEF S!TruncateIndex
    <2>5. CASE S!WriteIndex
      BY <2>1, <2>5 DEF S!WriteIndex
    <2> QED BY <2>2, <2>3, <2>4, <2>5
  <1>3. registry' \in S!Index \cup {NoIndex, Torn} /\ edits' \in 0..MaxEdits
    <2>1. registry \in S!Index \cup {NoIndex, Torn} /\ edits \in 0..MaxEdits /\ build.found \in S!Index
      BY DEF SkillsInv, SkillsTyped, S!TypeOK
    <2>2. registry' \in {registry, Torn, build.found}
      BY DEF S!BuildStarts, S!ScanDirectory, S!TruncateIndex, S!WriteIndex
    <2>3. edits' = edits \/ (edits < MaxEdits /\ edits' = edits + 1)
      BY DEF S!BuildStarts, S!ScanDirectory, S!TruncateIndex, S!WriteIndex
    <2> QED BY <2>1, <2>2, <2>3, BoundsAssumption
  <1>4. SkillsTyped'
    <2>1. build'.pc \in {"idle", "scan", "write"} /\ build'.todo \in S!Index /\ build'.found \in S!Index
      BY <1>2
    <2> QED BY <1>1, <1>2, <1>3, <2>1 DEF SkillsInv, SkillsTyped, S!TypeOK
  <1>5. FindIsFresh' /\ ListsAreTrue' /\ WalkIsTrue' /\ LookIsTrue' /\ S!ListedIsReadable'
    BY <1>1 DEF SkillsInv, FindIsFresh, ListsAreTrue, Offerable, WalkIsTrue, LookIsTrue, S!Candidate, S!ListedIsReadable
  <1> QED BY <1>4, <1>5 DEF SkillsInv

LEMMA EditsStep ==
  ASSUME SkillsInv, S!Edit
  PROVE  SkillsInv'
  <1>1. UNCHANGED <<text, registry, build, cached, call, listed>>
    BY DEF S!Edit
  <1>2. PICK s \in SkillIds, n \in S!Names, k \in S!Kinds :
          tree' = [tree EXCEPT ![s][n] = k] /\ touched' = touched \cup {s} /\ edits < MaxEdits /\ edits' = edits + 1
    BY DEF S!Edit
  <1>3. tree' \in [SkillIds -> [S!Names -> S!Kinds]] /\ \A t \in SkillIds \ touched' : tree'[t] = tree[t]
    BY <1>2 DEF SkillsInv, SkillsTyped, S!TypeOK
  <1>4. touched \subseteq touched' /\ touched' \in S!Index /\ edits' \in 0..MaxEdits
    BY <1>2, BoundsAssumption DEF SkillsInv, SkillsTyped, S!TypeOK, S!Index
  <1>5. SkillsTyped'
    BY <1>1, <1>3, <1>4 DEF SkillsInv, SkillsTyped, S!TypeOK
  <1>6. ListsAreTrue'
    BY <1>1, <1>3, <1>4 DEF SkillsInv, ListsAreTrue, Offerable
  <1>7. call.pc # "idle" => call.skill \in SkillIds
    BY CallFacts
  <1>8. WalkIsTrue' /\ LookIsTrue' /\ FindIsFresh'
    BY <1>1, <1>3, <1>4, <1>7 DEF SkillsInv, FindIsFresh, WalkIsTrue, LookIsTrue, Offerable, S!Candidate
  <1>9. S!ListedIsReadable'
    BY <1>1, <1>3, <1>4, <1>7 DEF SkillsInv, S!ListedIsReadable
  <1> QED BY <1>5, <1>6, <1>8, <1>9 DEF SkillsInv

LEMMA CallStep ==
  ASSUME SkillsInv, S!Call
  PROVE  SkillsInv'
  <1>1. PICK op \in S!Operations, own \in BOOLEAN, s \in SkillIds, n \in S!Names :
          /\ op # "read_resource" => n = Entry
          /\ call' = [S!Idle EXCEPT !.op = op, !.own = own, !.skill = s, !.path = n, !.pc = "load"]
    BY Zenon DEF S!Call
  <1> DEFINE r == [S!Idle EXCEPT !.op = op, !.own = own, !.skill = s, !.path = n, !.pc = "load"]
  <1>2. r \in CallType /\ r.pc = "load" /\ r.op = op /\ r.skill = s /\ r.path = n /\ r.found = {}
    BY DEF S!Idle, CallType
  <1>3. call' = r
    BY <1>1
  <1> HIDE DEF r
  <1>4. SkillsTyped' /\ ListsAreTrue'
    BY <1>2, <1>3, CallMoves DEF S!Call, SkillsInv, SkillsTyped, S!TypeOK
  <1>5. FindIsFresh' /\ WalkIsTrue' /\ LookIsTrue' /\ S!ListedIsReadable'
    BY <1>2, <1>3 DEF FindIsFresh, WalkIsTrue, LookIsTrue, S!ListedIsReadable
  <1> QED BY <1>4, <1>5 DEF SkillsInv

LEMMA LoadStep ==
  ASSUME SkillsInv, S!Load
  PROVE  SkillsInv'
  <1>1. call.pc = "load" /\ UNCHANGED <<tree, text, registry, build, listed, edits, touched>>
    BY DEF S!Load
  <1>2. registry \in S!Index \cup {NoIndex, Torn} /\ cached' \in S!Index \cup {NoIndex}
    BY DEF S!Load, S!Catalogue, SkillsInv, SkillsTyped, S!TypeOK
  <1>3. \/ \E a \in {"ok", "unindexed"} : call' = [call EXCEPT !.pc = "done", !.answer = a] /\ (a = "ok" => call.op = "list")
        \/ call' = [call EXCEPT !.pc = "find"] /\ call.op # "list"
    BY DEF S!Load, S!Answers
  <1>4. CASE call' = [call EXCEPT !.pc = "find"] /\ call.op # "list"
    <2> DEFINE r == [call EXCEPT !.pc = "find"]
    <2>1. r \in CallType /\ r.pc = "find" /\ r.op = call.op /\ r.skill = call.skill /\ r.path = call.path /\ r.found = call.found
      BY CallFacts DEF CallType
    <2>2. call' = r
      BY <1>4
    <2> HIDE DEF r
    <2>3. SkillsTyped' /\ ListsAreTrue'
      BY <1>1, <1>2, <1>4, <2>1, <2>2, CallFacts, CallMoves
    <2>4. FindIsFresh' /\ WalkIsTrue' /\ LookIsTrue' /\ S!ListedIsReadable'
      BY <1>1, <2>1, <2>2 DEF SkillsInv, FindIsFresh, WalkIsTrue, LookIsTrue, S!ListedIsReadable
    <2> QED BY <2>3, <2>4 DEF SkillsInv
  <1>5. ASSUME NEW a \in {"ok", "unindexed"}, call' = [call EXCEPT !.pc = "done", !.answer = a], a = "ok" => call.op = "list"
        PROVE  SkillsInv'
    <2> DEFINE r == [call EXCEPT !.pc = "done", !.answer = a]
    <2>1. r \in CallType /\ r.pc = "done" /\ r.op = call.op /\ r.skill = call.skill /\ r.path = call.path /\ r.answer = a
      BY CallFacts DEF CallType
    <2>2. call' = r
      BY <1>5
    <2> HIDE DEF r
    <2>3. SkillsTyped' /\ ListsAreTrue'
      BY <1>1, <1>2, <1>5, <2>1, <2>2, CallFacts, CallMoves
    <2>4. FindIsFresh' /\ WalkIsTrue' /\ LookIsTrue' /\ S!ListedIsReadable'
      BY <1>5, <2>1, <2>2 DEF FindIsFresh, WalkIsTrue, LookIsTrue, S!ListedIsReadable
    <2> QED BY <2>3, <2>4 DEF SkillsInv
  <1> QED BY <1>3, <1>4, <1>5

LEMMA ReadsStep ==
  ASSUME SkillsInv, S!ReadEntry \/ S!OpenResource \/ S!ReadResource
  PROVE  SkillsInv'
  <1>1. /\ call.pc \in {"open", "read"} /\ call.op \in {"read", "evaluate", "read_resource"}
        /\ UNCHANGED <<tree, text, registry, build, cached, listed, edits, touched>>
    BY DEF S!ReadEntry, S!OpenResource, S!ReadResource, SkillsInv, SkillsTyped
  <1>2. registry \in S!Index \cup {NoIndex, Torn} /\ cached \in S!Index \cup {NoIndex}
    BY DEF SkillsInv, SkillsTyped, S!TypeOK
  <1>3. \/ \E a \in {"error", "ok", "reject", "review", "recommended"} : S!Answers(a)
        \/ call.pc = "open" /\ S!Readable(S!Candidate, tree[call.skill][S!Candidate]) /\ call' = [call EXCEPT !.pc = "read"]
    BY DEF S!ReadEntry, S!OpenResource, S!ReadResource, S!Verdict
  <1>4. CASE call.pc = "open" /\ S!Readable(S!Candidate, tree[call.skill][S!Candidate]) /\ call' = [call EXCEPT !.pc = "read"]
    <2> DEFINE r == [call EXCEPT !.pc = "read"]
    <2>1. r \in CallType /\ r.pc = "read" /\ r.op = call.op /\ r.skill = call.skill /\ r.path = call.path
      BY CallFacts DEF CallType
    <2>2. call' = r
      BY <1>4
    <2> HIDE DEF r
    <2>3. SkillsTyped' /\ ListsAreTrue'
      BY <1>1, <1>2, <2>1, <2>2, CallFacts, CallMoves
    <2>4. FindIsFresh' /\ WalkIsTrue' /\ S!ListedIsReadable'
      BY <2>1, <2>2 DEF FindIsFresh, WalkIsTrue, S!ListedIsReadable
    <2>5. LookIsTrue'
      BY <1>1, <1>4, <2>1, <2>2 DEF LookIsTrue, S!Readable, S!Candidate
    <2> QED BY <2>3, <2>4, <2>5 DEF SkillsInv
  <1>5. ASSUME NEW a \in {"error", "ok", "reject", "review", "recommended"}, S!Answers(a)
        PROVE  SkillsInv'
    <2> DEFINE r == [call EXCEPT !.pc = "done", !.answer = a]
    <2>1. r \in CallType /\ r.pc = "done" /\ r.op = call.op /\ r.skill = call.skill /\ r.path = call.path /\ r.answer = a
      BY CallFacts DEF CallType
    <2>2. call' = r
      BY <1>5 DEF S!Answers
    <2> HIDE DEF r
    <2>3. SkillsTyped' /\ ListsAreTrue'
      BY <1>1, <1>2, <2>1, <2>2, CallFacts, CallMoves
    <2>4. FindIsFresh' /\ WalkIsTrue' /\ LookIsTrue'
      BY <2>1, <2>2 DEF FindIsFresh, WalkIsTrue, LookIsTrue
    <2>5. ASSUME call.op = "read_resource", a = "error", call.skill \notin touched
          PROVE  \/ call.path \notin listed[call.skill] \/ tree[call.skill][call.path] = "big"
                 \/ Trimmed[call.path] # call.path \/ call.path \in Dotted
      <3>1. listed[call.skill] \subseteq Offerable(call.skill)
        BY <1>1, <2>5, CallFacts DEF SkillsInv, ListsAreTrue
      <3>2. S!Candidate = Entry \/ S!Candidate \in Dotted \/ tree[call.skill][S!Candidate] # "file"
        <4>1. r.answer = "error" /\ "error" # "ok"
          BY <2>1, <2>5
        <4>2. CASE S!OpenResource
          <5>1. r.pc = "done" /\ [call EXCEPT !.pc = "read"].pc = "read"
            BY <2>1, CallFacts
          <5> QED BY <4>2, <5>1, <2>2 DEF S!OpenResource, S!Readable
        <4>3. CASE S!ReadResource
          <5>1. [call EXCEPT !.pc = "done", !.answer = "ok"].answer = "ok"
            BY CallFacts DEF CallType
          <5> QED BY <4>1, <4>3, <5>1, <2>2 DEF S!ReadResource, S!Answers
        <4>4. ~S!ReadEntry
          BY <2>5 DEF S!ReadEntry
        <4> QED BY <4>2, <4>3, <4>4
      <3> QED BY <3>1, <3>2 DEF Offerable, S!Candidate
    <2>6. S!ListedIsReadable'
      BY <1>1, <2>1, <2>2, <2>5 DEF S!ListedIsReadable
    <2> QED BY <2>3, <2>4, <2>6 DEF SkillsInv
  <1> QED BY <1>3, <1>4, <1>5

LEMMA FindStep ==
  ASSUME SkillsInv, S!Find
  PROVE  SkillsInv'
  <1>1. call.pc = "find" /\ UNCHANGED <<tree, text, registry, build, cached, edits>> /\ call.op # "list"
    BY DEF S!Find, SkillsInv, SkillsTyped
  <1>2. call.op \in S!Operations /\ call.skill \in SkillIds /\ call.path \in S!Names
    BY <1>1, CallFacts
  <1> DEFINE todo == {e \in S!Names \X S!Kinds : e[2] = tree[call.skill][e[1]] /\ e[2] # "none"}
  <1>3. PICK r : /\ call' = r /\ r \in CallType /\ r.op = call.op /\ r.skill = call.skill /\ r.path = call.path
                 /\ \/ r.pc = "done" /\ r.answer = "error" /\ ~S!HasDirectory(call.skill)
                    \/ r.pc = "read" /\ call.op \in {"read", "evaluate"}
                    \/ r.pc = "open" /\ call.op = "read_resource"
                    \/ r.pc = "walk" /\ call.op = "list_resources" /\ r.todo = todo /\ r.found = call.found
    <2>1. CASE ~S!HasDirectory(call.skill)
      <3>1. call' = [call EXCEPT !.pc = "done", !.answer = "error"]
        BY <2>1 DEF S!Find, S!Answers
      <3>2. [call EXCEPT !.pc = "done", !.answer = "error"] \in CallType
        BY CallFacts DEF CallType
      <3> QED BY <2>1, <3>1, <3>2, CallFacts, ZenonT(60)
    <2>2. CASE S!HasDirectory(call.skill) /\ call.op \in {"read", "evaluate"}
      <3>1. call' = [call EXCEPT !.pc = "read"]
        BY <2>2 DEF S!Find
      <3> DEFINE moved == [call EXCEPT !.pc = "read"]
      <3>2. moved \in CallType /\ moved.op = call.op /\ moved.skill = call.skill /\ moved.path = call.path /\ moved.pc = "read"
        BY CallFacts DEF CallType
      <3> HIDE DEF moved
      <3>3. call' = moved
        BY <3>1 DEF moved
      <3> QED BY <2>2, <3>2, <3>3
    <2>3. CASE S!HasDirectory(call.skill) /\ call.op = "read_resource"
      <3>1. call' = [call EXCEPT !.pc = "open"]
        BY <2>3 DEF S!Find
      <3> DEFINE moved == [call EXCEPT !.pc = "open"]
      <3>2. moved \in CallType /\ moved.op = call.op /\ moved.skill = call.skill /\ moved.path = call.path /\ moved.pc = "open"
        BY CallFacts DEF CallType
      <3> HIDE DEF moved
      <3>3. call' = moved
        BY <3>1 DEF moved
      <3> QED BY <2>3, <3>2, <3>3
    <2>4. CASE S!HasDirectory(call.skill) /\ call.op = "list_resources"
      <3>1. call' = [call EXCEPT !.pc = "walk", !.todo = todo]
        BY <2>4 DEF S!Find
      <3>2. todo \in SUBSET (S!Names \X S!Kinds)
        OBVIOUS
      <3> HIDE DEF todo
      <3>3. /\ [call EXCEPT !.pc = "walk", !.todo = todo] \in CallType
            /\ [call EXCEPT !.pc = "walk", !.todo = todo].pc = "walk"
            /\ [call EXCEPT !.pc = "walk", !.todo = todo].op = call.op
            /\ [call EXCEPT !.pc = "walk", !.todo = todo].skill = call.skill
            /\ [call EXCEPT !.pc = "walk", !.todo = todo].path = call.path
            /\ [call EXCEPT !.pc = "walk", !.todo = todo].todo = todo
            /\ [call EXCEPT !.pc = "walk", !.todo = todo].found = call.found
        BY <3>2, CallFacts DEF CallType
      <3> QED BY <2>4, <3>1, <3>3
    <2> QED BY <1>1, <1>2, <2>1, <2>2, <2>3, <2>4 DEF S!Operations
  <1>4. \/ /\ call.op = "list_resources" /\ touched' = touched \ {call.skill}
           /\ listed' = [listed EXCEPT ![call.skill] = {}]
        \/ call.op # "list_resources" /\ UNCHANGED <<touched, listed>>
    BY DEF S!Find, S!Forgets
  <1>5. SkillsTyped'
    <2>1. listed' \in [SkillIds -> SUBSET S!Names] /\ touched' \in S!Index
      BY <1>2, <1>4 DEF SkillsInv, SkillsTyped, S!TypeOK, S!Index
    <2> QED BY <1>1, <1>2, <1>3, <2>1 DEF SkillsInv, SkillsTyped, S!TypeOK, CallType
  <1>6. ListsAreTrue'
    <2>1. ASSUME NEW s \in SkillIds, s \notin touched' PROVE listed'[s] \subseteq Offerable(s)'
      <3>1. listed'[s] = {} \/ (s \notin touched /\ listed'[s] = listed[s])
        BY <1>2, <1>4, <2>1 DEF SkillsInv, SkillsTyped, S!TypeOK
      <3> QED BY <1>1, <3>1 DEF SkillsInv, ListsAreTrue, Offerable
    <2> QED BY <2>1 DEF ListsAreTrue
  <1>7. WalkIsTrue'
    <2> SUFFICES ASSUME r.pc = "walk"
                 PROVE  /\ \A e \in todo : e[2] = tree[call.skill][e[1]] /\ e[2] # "none"
                        /\ call.found = {}
                        /\ \A n \in S!Names : n # Entry /\ tree[call.skill][n] = "file" => <<n, "file">> \in todo
      BY <1>1, <1>3 DEF WalkIsTrue
    <2>1. call.found = {}
      BY <1>1 DEF SkillsInv, FindIsFresh
    <2>2. \A n \in S!Names : tree[call.skill][n] = "file" => <<n, "file">> \in todo
      BY <1>2 DEF S!Kinds
    <2> QED BY <2>1, <2>2
  <1>8. LookIsTrue' /\ FindIsFresh'
    BY <1>3 DEF LookIsTrue, FindIsFresh
  <1>9. S!ListedIsReadable'
    <2> SUFFICES ASSUME r.pc = "done", call.op = "read_resource", call.skill \notin touched
                 PROVE  call.path \notin listed[call.skill]
      BY <1>1, <1>3, <1>4 DEF S!ListedIsReadable
    <2>1. tree[call.skill][call.path] = "none"
      BY <1>2, <1>3 DEF S!HasDirectory
    <2> QED BY <1>2, <2>1 DEF SkillsInv, ListsAreTrue, Offerable
  <1> QED BY <1>5, <1>6, <1>7, <1>8, <1>9 DEF SkillsInv

LEMMA WalkStep ==
  ASSUME SkillsInv, S!Walk
  PROVE  SkillsInv'
  <1>1. call.pc = "walk" /\ call.op = "list_resources" /\ UNCHANGED <<tree, text, registry, build, cached, listed, edits, touched>>
    BY DEF S!Walk, SkillsInv, SkillsTyped
  <1>2. /\ call \in CallType /\ call.op \in S!Operations /\ call.skill \in SkillIds /\ call.path \in S!Names
        /\ registry \in S!Index \cup {NoIndex, Torn} /\ cached \in S!Index \cup {NoIndex}
    BY <1>1, CallFacts DEF SkillsInv, SkillsTyped, S!TypeOK
  <1>3. PICK e \in call.todo :
          \/ ~S!Offered(e[1], e[2]) /\ call' = [call EXCEPT !.todo = @ \ {e}]
          \/ S!Offered(e[1], e[2]) /\ tree[call.skill][e[1]] = "none" /\ S!Answers("error")
          \/ /\ S!Offered(e[1], e[2]) /\ tree[call.skill][e[1]] # "none"
             /\ call' = [call EXCEPT !.todo = @ \ {e}, !.found = @ \cup {e[1]}]
    BY DEF S!Walk
  <1>4. e \in S!Names \X S!Kinds
    BY <1>2 DEF CallType
  <1>5. CASE S!Answers("error")
    <2> DEFINE r == [call EXCEPT !.pc = "done", !.answer = "error"]
    <2>1. r \in CallType /\ r.pc = "done" /\ r.op = call.op /\ r.skill = call.skill /\ r.path = call.path /\ r.answer = "error"
      BY CallFacts DEF CallType
    <2>2. call' = r
      BY <1>5 DEF S!Answers
    <2> HIDE DEF r
    <2>3. SkillsTyped' /\ ListsAreTrue'
      BY <1>1, <1>2, <2>1, <2>2, CallMoves
    <2>4. WalkIsTrue' /\ LookIsTrue' /\ S!ListedIsReadable' /\ FindIsFresh'
      BY <1>1, <2>1, <2>2 DEF WalkIsTrue, LookIsTrue, S!ListedIsReadable, FindIsFresh
    <2> QED BY <2>3, <2>4 DEF SkillsInv
  <1>6. ASSUME NEW found, found \in SUBSET S!Names, call' = [call EXCEPT !.todo = @ \ {e}, !.found = found],
               \/ found = call.found /\ ~S!Offered(e[1], e[2])
               \/ S!Offered(e[1], e[2]) /\ tree[call.skill][e[1]] # "none" /\ found = call.found \cup {e[1]}
        PROVE  SkillsInv'
    <2> DEFINE r == [call EXCEPT !.todo = @ \ {e}, !.found = found]
    <2>1. /\ r \in CallType /\ r.pc = "walk" /\ r.op = call.op /\ r.skill = call.skill /\ r.path = call.path
          /\ r.todo = call.todo \ {e} /\ r.found = found
      BY <1>1, <1>2, <1>6 DEF CallType
    <2>2. call' = r
      BY <1>6
    <2> HIDE DEF r
    <2>3. SkillsTyped' /\ ListsAreTrue'
      BY <1>1, <1>2, <2>1, <2>2, CallMoves
    <2>4. LookIsTrue' /\ S!ListedIsReadable' /\ FindIsFresh'
      BY <1>1, <2>1, <2>2 DEF LookIsTrue, S!ListedIsReadable, FindIsFresh
    <2>5. WalkIsTrue'
      <3> SUFFICES ASSUME call.skill \notin touched
                   PROVE  /\ \A x \in call.todo \ {e} : x[2] = tree[call.skill][x[1]] /\ x[2] # "none"
                          /\ found \subseteq Offerable(call.skill)
                          /\ \A n \in S!Names : n # Entry /\ tree[call.skill][n] = "file" =>
                               n \in found \/ <<n, "file">> \in call.todo \ {e}
        BY <1>1, <2>1, <2>2 DEF WalkIsTrue, Offerable
      <3>1. /\ \A x \in call.todo : x[2] = tree[call.skill][x[1]] /\ x[2] # "none"
            /\ call.found \subseteq Offerable(call.skill)
            /\ \A n \in S!Names : n # Entry /\ tree[call.skill][n] = "file" => n \in call.found \/ <<n, "file">> \in call.todo
        BY <1>1 DEF SkillsInv, WalkIsTrue
      <3>2. S!Offered(e[1], e[2]) => e[1] \in Offerable(call.skill)
        BY <1>3, <1>4, <3>1 DEF Offerable, S!Offered, S!Kinds
      <3>3. ASSUME NEW n \in S!Names, n # Entry, <<n, "file">> = e PROVE n \in found
        <4>1. S!Offered(e[1], e[2]) /\ e[1] = n
          BY <3>3 DEF S!Offered
        <4> QED BY <4>1, <1>6
      <3> QED BY <1>6, <3>1, <3>2, <3>3
    <2> QED BY <2>3, <2>4, <2>5 DEF SkillsInv
  <1>7. CASE ~S!Offered(e[1], e[2]) /\ call' = [call EXCEPT !.todo = @ \ {e}]
    <2>1. call.found \in SUBSET S!Names /\ [call EXCEPT !.todo = @ \ {e}] = [call EXCEPT !.todo = @ \ {e}, !.found = call.found]
      BY <1>2 DEF CallType
    <2> QED BY <1>6, <1>7, <2>1
  <1>8. CASE /\ S!Offered(e[1], e[2]) /\ tree[call.skill][e[1]] # "none"
             /\ call' = [call EXCEPT !.todo = @ \ {e}, !.found = @ \cup {e[1]}]
    <2>1. call.found \cup {e[1]} \in SUBSET S!Names
      BY <1>2, <1>4 DEF CallType
    <2> QED BY <1>6, <1>8, <2>1
  <1> QED BY <1>3, <1>5, <1>7, <1>8

LEMMA ListedStep ==
  ASSUME SkillsInv, S!Listed
  PROVE  SkillsInv'
  <1>1. /\ call.pc = "walk" /\ call.op = "list_resources" /\ UNCHANGED <<tree, text, registry, build, cached, edits, touched>>
        /\ listed' = [listed EXCEPT ![call.skill] = call.found]
        /\ call.todo = {} \/ S!Cardinality(call.found) >= MAX_SKILL_RESOURCES
    BY DEF S!Listed, SkillsInv, SkillsTyped
  <1>2. /\ call \in CallType /\ call.op \in S!Operations /\ call.skill \in SkillIds /\ call.path \in S!Names
        /\ registry \in S!Index \cup {NoIndex, Torn} /\ cached \in S!Index \cup {NoIndex}
    BY <1>1, CallFacts DEF SkillsInv, SkillsTyped, S!TypeOK
  <1> DEFINE r == [call EXCEPT !.pc = "done", !.answer = "ok"]
  <1>3. r \in CallType /\ r.pc = "done" /\ r.op = call.op /\ r.skill = call.skill /\ r.path = call.path /\ r.answer = "ok"
    BY CallFacts DEF CallType
  <1>4. call' = r
    BY DEF S!Listed, S!Answers
  <1> HIDE DEF r
  <1>5. listed' \in [SkillIds -> SUBSET S!Names] /\ \A s \in SkillIds : listed'[s] = IF s = call.skill THEN call.found ELSE listed[s]
    BY <1>1, <1>2 DEF SkillsInv, SkillsTyped, S!TypeOK, CallType
  <1>6. SkillsTyped'
    BY <1>1, <1>2, <1>3, <1>4, <1>5 DEF SkillsInv, SkillsTyped, S!TypeOK, CallType
  <1>7. ListsAreTrue'
    BY <1>1, <1>5 DEF SkillsInv, ListsAreTrue, WalkIsTrue, Offerable
  <1>8. WalkIsTrue' /\ LookIsTrue' /\ FindIsFresh'
    BY <1>3, <1>4 DEF WalkIsTrue, LookIsTrue, FindIsFresh
  <1>9. S!ListedIsReadable'
    <2> SUFFICES ASSUME call.skill \notin touched, call.todo = {}
                 PROVE  {n \in Resources : tree[call.skill][n] = "file"} \subseteq call.found
      BY <1>1, <1>2, <1>3, <1>4, <1>5 DEF S!ListedIsReadable
    <2>1. \A n \in S!Names : n # Entry /\ tree[call.skill][n] = "file" => n \in call.found
      BY <1>1 DEF SkillsInv, WalkIsTrue
    <2> QED BY <2>1, SkillsAssumption DEF S!Names
  <1> QED BY <1>6, <1>7, <1>8, <1>9 DEF SkillsInv

LEMMA SkillsStep == SkillsInv /\ [S!Next]_skills => SkillsInv'
  <1> SUFFICES ASSUME SkillsInv, [S!Next]_skills PROVE SkillsInv'
    OBVIOUS
  <1>1. CASE S!Next
    BY <1>1, BuildStep, EditsStep, CallStep, LoadStep, FindStep, ReadsStep, WalkStep, ListedStep DEF S!Next
  <1>2. CASE UNCHANGED skills
    BY <1>2 DEF skills, SkillsInv, SkillsTyped, S!TypeOK, ListsAreTrue, WalkIsTrue, LookIsTrue, S!Candidate, FindIsFresh, Offerable,
       S!ListedIsReadable
  <1> QED BY <1>1, <1>2

LEMMA SkillsKept == Spec => [](part = "skills" => SkillsInv)
  <1> DEFINE Inv == part = "skills" => SkillsInv
  <1>1. Init => Inv
    BY SkillsInit DEF Init
  <1>2. Inv /\ [Next]_vars => Inv'
    BY SkillsStep DEF Next, vars, skills
  <1> QED BY <1>1, <1>2, PTL DEF Spec

(* What a list of resources offered can be read as long as the skill is as *)
(* it was listed, and a list is complete up to its limit, while skills are *)
(* edited, indexed and listed in between (listResources, readResource).    *)
THEOREM Offers == Spec => []ListedIsReadable
  <1>1. (part = "skills" => SkillsInv) => ListedIsReadable
    BY DEF SkillsInv, ListedIsReadable
  <1> QED BY <1>1, SkillsKept, PTL

-----------------------------------------------------------------------------
(***************************************************************************)
(* The HTTP surface.                                                       *)
(***************************************************************************)

(* An instance has a copy of the operator that counts.                     *)
LEMMA SurfaceCounts == \A X : A!Cardinality(X) = Cardinality(X)
  BY DEF A!Cardinality, Cardinality

Requests ==
  [route : A!Routes, credential : A!Credentials, owner : Users \cup {Runtime}, scopes : SUBSET A!Scopes,
   pc : {"none", "hook", "auth", "handle", "act", "exchange", "commit"}]

(* Tokens are numbered; each is of a code that was spent on it.            *)
TokensAreSpent ==
  /\ \E n \in Nat : DOMAIN tokens = 1..n
  /\ \A t \in DOMAIN tokens : tokens[t] \in A!Token
  /\ \A t \in DOMAIN tokens :
       code[tokens[t].user].state = "spent" /\ tokens[t].scopes = code[tokens[t].user].scopes
  /\ \A t, v \in DOMAIN tokens : tokens[t].user = tokens[v].user => t = v

(* A request is for nobody before it is authenticated, and then for the    *)
(* user whose code was spent; one that is about to spend a code locks it.  *)
GoodRequest(r, p) ==
  /\ r.route = "token" \/ r.pc \in {"exchange", "commit"} => r.credential \in Users
  /\ r.pc = "commit" => code[r.credential].lock = p /\ code[r.credential].state = "live"
  /\ r.pc \in {"none", "hook", "auth"} => r.owner = Runtime
  /\ r.owner # Runtime => code[r.owner].state = "spent" /\ r.scopes \subseteq code[r.owner].scopes
  /\ r.pc \in {"handle", "act"} => r.owner = IF r.credential \in Users THEN r.credential ELSE Runtime
  /\ r.pc = "act" => A!Required(r.route) \subseteq r.scopes

(* What is granted is within the role, and so is what was done with it.    *)
GrantsAreKept ==
  /\ \A u \in Users : account[u] # "disabled" => code[u].scopes \subseteq A!ScopesFor(account[u])
  /\ \A a \in acted : a.caller \in Users =>
       code[a.caller].state = "spent" /\ A!Required(a.route) \subseteq code[a.caller].scopes

SurfaceInv ==
  /\ account \in [Users -> A!Roles \cup {"disabled"}]
  /\ code \in [Users -> [state : {"none", "live", "spent", "expired"}, scopes : SUBSET A!Scopes, lock : Posts \cup {Runtime}]]
  /\ request \in [Posts -> Requests] /\ requests \in 0..MaxRequests
  /\ TokensAreSpent
  /\ \A p \in Posts : GoodRequest(request[p], p)
  /\ \A a \in acted : a.by = IF a.caller \in Users THEN a.caller ELSE Runtime
  /\ GrantsAreKept

LEMMA NothingIsGood == A!Nothing \in Requests /\ \A p \in Posts : GoodRequest(A!Nothing, p)
  BY SurfaceAssumption DEF A!Nothing, Requests, GoodRequest, A!Routes, A!Compact, A!Granular, A!Credentials

LEMMA SurfaceInit == A!Init => SurfaceInv
  <1> SUFFICES ASSUME A!Init PROVE SurfaceInv
    OBVIOUS
  <1>1. TokensAreSpent
    <2>1. DOMAIN tokens = 1..0
      BY DEF A!Init
    <2> QED BY <2>1 DEF TokensAreSpent
  <1>2. request \in [Posts -> Requests] /\ \A p \in Posts : GoodRequest(request[p], p)
    BY NothingIsGood DEF A!Init
  <1>3. GrantsAreKept
    BY DEF A!Init, GrantsAreKept
  <1> QED BY <1>1, <1>2, <1>3, BoundsAssumption DEF A!Init, SurfaceInv

(* One request changes, the codes stay.                                    *)
LEMMA RequestChanges ==
  ASSUME SurfaceInv, NEW p \in Posts, NEW r \in Requests, GoodRequest(r, p),
         request' = [request EXCEPT ![p] = r], UNCHANGED code
  PROVE  request' \in [Posts -> Requests] /\ \A q \in Posts : GoodRequest(request[q], q)'
  <1>1. request' \in [Posts -> Requests] /\ \A q \in Posts : request'[q] = IF q = p THEN r ELSE request[q]
    BY DEF SurfaceInv
  <1>2. \A q \in Posts : GoodRequest(request'[q], q)
    BY <1>1 DEF SurfaceInv
  <1> QED BY <1>1, <1>2 DEF GoodRequest

LEMMA RepliesIsGood ==
  ASSUME SurfaceInv, NEW p \in Posts, A!Replies(p), UNCHANGED code
  PROVE  request' \in [Posts -> Requests] /\ \A q \in Posts : GoodRequest(request[q], q)'
  BY RequestChanges, NothingIsGood DEF A!Replies

LEMMA GoesIsGood ==
  ASSUME SurfaceInv, NEW p \in Posts, NEW pc, A!Goes(p, pc), UNCHANGED code,
         [request[p] EXCEPT !.pc = pc] \in Requests, GoodRequest([request[p] EXCEPT !.pc = pc], p)
  PROVE  request' \in [Posts -> Requests] /\ \A q \in Posts : GoodRequest(request[q], q)'
  <1>1. request' = [request EXCEPT ![p] = [request[p] EXCEPT !.pc = pc]]
    BY DEF A!Goes
  <1> QED BY <1>1, RequestChanges

LEMMA TokensStay ==
  ASSUME SurfaceInv, UNCHANGED <<code, tokens>>
  PROVE  TokensAreSpent'
  BY DEF SurfaceInv, TokensAreSpent

(* A code that was spent stays so, and scopes are granted once.            *)
LEMMA GrantsStay ==
  ASSUME SurfaceInv, UNCHANGED <<account, acted>>,
         \A v \in Users : code'[v].scopes = code[v].scopes /\ (code[v].state = "spent" => code'[v].state = "spent")
  PROVE  GrantsAreKept'
  BY DEF SurfaceInv, GrantsAreKept

LEMMA AuthorizeStep ==
  ASSUME SurfaceInv, NEW u \in Users, A!Authorize(u)
  PROVE  SurfaceInv'
  <1>1. PICK g \in SUBSET A!Scopes : /\ code' = [code EXCEPT ![u].state = "live", ![u].scopes = g]
                                     /\ g \subseteq A!ScopesFor(account[u])
    <2>1. PICK asked \in SUBSET A!Scopes :
             LET granted == asked \cap A!ScopesFor(account[u]) IN
             code' = [code EXCEPT ![u].state = "live", ![u].scopes = IF granted = {} THEN {"fs.read"} ELSE granted]
      BY DEF A!Authorize
    <2>2. (IF asked \cap A!ScopesFor(account[u]) = {} THEN {"fs.read"} ELSE asked \cap A!ScopesFor(account[u])) \in SUBSET A!Scopes
      BY DEF A!Scopes
    <2>3. "fs.read" \in A!ScopesFor(account[u])
      BY DEF A!ScopesFor, A!Scopes
    <2> QED BY <2>1, <2>2, <2>3
  <1>2. \A v \in Users : v # u => code'[v] = code[v]
    BY <1>1 DEF SurfaceInv
  <1>3. code[u].state = "none"
    BY DEF A!Authorize
  <1>4. code'[u] = [code[u] EXCEPT !.state = "live", !.scopes = g]
    BY <1>1 DEF SurfaceInv
  <1>5. code' \in [Users -> [state : {"none", "live", "spent", "expired"}, scopes : SUBSET A!Scopes, lock : Posts \cup {Runtime}]]
    BY <1>1, ZenonT(60) DEF SurfaceInv
  <1>6. TokensAreSpent'
    <2>1. \A t \in DOMAIN tokens : tokens[t].user # u /\ tokens[t].user \in Users
      BY <1>3 DEF SurfaceInv, TokensAreSpent, A!Token
    <2> QED BY <2>1, <1>2 DEF SurfaceInv, TokensAreSpent, A!Authorize
  <1>7. \A p \in Posts : GoodRequest(request[p], p)'
    <2> SUFFICES ASSUME NEW p \in Posts PROVE GoodRequest(request[p], p)'
      OBVIOUS
    <2>1. request'[p] = request[p] /\ request[p] \in Requests /\ GoodRequest(request[p], p)
      BY DEF A!Authorize, SurfaceInv
    <2>2. request[p].owner # Runtime => request[p].owner \in Users /\ request[p].owner # u
      BY <2>1, <1>3 DEF Requests, GoodRequest
    <2>3. request[p].pc = "commit" => request[p].credential \in Users /\ request[p].credential # u
      BY <2>1, <1>3 DEF GoodRequest
    <2> QED BY <2>1, <2>2, <2>3, <1>2 DEF GoodRequest
  <1>8. GrantsAreKept'
    <2>1. \A a \in acted : a.caller \in Users => a.caller # u
      BY <1>3 DEF SurfaceInv, GrantsAreKept
    <2>2. code'[u].scopes = g
      BY <1>4 DEF SurfaceInv
    <2> QED BY <2>1, <2>2, <1>1, <1>2 DEF SurfaceInv, GrantsAreKept, A!Authorize
  <1> QED BY <1>5, <1>6, <1>7, <1>8 DEF A!Authorize, SurfaceInv

LEMMA ExpireStep == SurfaceInv /\ A!Expire => SurfaceInv'
  <1> SUFFICES ASSUME SurfaceInv, A!Expire PROVE SurfaceInv'
    OBVIOUS
  <1>1. CASE /\ \E u \in Users : code[u].state = "live" /\ code[u].lock = Runtime
                                 /\ code' = [code EXCEPT ![u].state = "expired"]
             /\ UNCHANGED <<account, tokens>>
    <2>1. PICK u \in Users : /\ code[u].state = "live" /\ code[u].lock = Runtime
                             /\ code' = [code EXCEPT ![u].state = "expired"]
      BY <1>1
    <2>2. /\ code' \in [Users -> [state : {"none", "live", "spent", "expired"}, scopes : SUBSET A!Scopes, lock : Posts \cup {Runtime}]]
          /\ \A v \in Users : v # u => code'[v] = code[v]
      BY <2>1 DEF SurfaceInv
    <2>3. TokensAreSpent'
      <3>1. \A t \in DOMAIN tokens : tokens[t].user # u /\ tokens[t].user \in Users
        BY <2>1 DEF SurfaceInv, TokensAreSpent, A!Token
      <3> QED BY <3>1, <2>2, <1>1 DEF SurfaceInv, TokensAreSpent
    <2>4. \A p \in Posts : GoodRequest(request[p], p)'
      <3> SUFFICES ASSUME NEW p \in Posts PROVE GoodRequest(request[p], p)'
        OBVIOUS
      <3>1. request'[p] = request[p] /\ request[p] \in Requests /\ GoodRequest(request[p], p)
        BY DEF A!Expire, SurfaceInv
      <3>2. request[p].owner # Runtime => request[p].owner \in Users /\ request[p].owner # u
        BY <3>1, <2>1 DEF Requests, GoodRequest
      <3>3. request[p].pc = "commit" => request[p].credential \in Users /\ request[p].credential # u
        BY <3>1, <2>1, SurfaceAssumption DEF GoodRequest
      <3> QED BY <3>1, <3>2, <3>3, <2>2 DEF GoodRequest
    <2>5. GrantsAreKept'
      <3>1. code'[u].scopes = code[u].scopes /\ code[u].state # "spent"
        BY <2>1 DEF SurfaceInv
      <3> QED BY <3>1, <2>2, <1>1, GrantsStay DEF A!Expire
    <2> QED BY <1>1, <2>2, <2>3, <2>4, <2>5 DEF A!Expire, SurfaceInv
  <1>2. CASE /\ \E t \in DOMAIN tokens : tokens[t].valid /\ tokens' = [tokens EXCEPT ![t].valid = FALSE]
             /\ UNCHANGED <<account, code>>
    <2>1. PICK t \in DOMAIN tokens : tokens' = [tokens EXCEPT ![t].valid = FALSE]
      BY <1>2
    <2>2. DOMAIN tokens' = DOMAIN tokens
      BY <2>1
    <2>3. ASSUME NEW v \in DOMAIN tokens
          PROVE  tokens'[v] \in A!Token /\ tokens'[v].user = tokens[v].user /\ tokens'[v].scopes = tokens[v].scopes
      <3>1. tokens[v] \in A!Token
        BY DEF SurfaceInv, TokensAreSpent
      <3>2. CASE v = t
        BY <3>1, <3>2, <2>1 DEF A!Token
      <3>3. CASE v # t
        BY <3>1, <3>3, <2>1
      <3> QED BY <3>2, <3>3
    <2>4. TokensAreSpent'
      <3>1. \E n \in Nat : DOMAIN tokens' = 1..n
        BY <2>2 DEF SurfaceInv, TokensAreSpent
      <3>2. \A v \in DOMAIN tokens :
              /\ tokens'[v] \in A!Token
              /\ code[tokens'[v].user].state = "spent" /\ tokens'[v].scopes = code[tokens'[v].user].scopes
        BY <2>3 DEF SurfaceInv, TokensAreSpent
      <3>3. \A v, w \in DOMAIN tokens : tokens'[v].user = tokens'[w].user => v = w
        BY <2>3 DEF SurfaceInv, TokensAreSpent
      <3> QED BY <1>2, <2>2, <3>1, <3>2, <3>3 DEF TokensAreSpent
    <2>5. \A p \in Posts : GoodRequest(request[p], p)'
      BY <1>2 DEF A!Expire, SurfaceInv, GoodRequest
    <2>6. GrantsAreKept'
      BY <1>2, GrantsStay DEF A!Expire
    <2> QED BY <1>2, <2>4, <2>5, <2>6 DEF A!Expire, SurfaceInv
  <1>3. CASE /\ \E u \in Users : account[u] # "disabled" /\ account' = [account EXCEPT ![u] = "disabled"]
             /\ UNCHANGED <<code, tokens>>
    <2>1. \A p \in Posts : GoodRequest(request[p], p)'
      BY <1>3 DEF A!Expire, SurfaceInv, GoodRequest
    <2>2. account' \in [Users -> A!Roles \cup {"disabled"}]
      BY <1>3 DEF SurfaceInv
    <2>3. GrantsAreKept'
      <3>1. \A u \in Users : account'[u] \in {account[u], "disabled"}
        BY <1>3 DEF SurfaceInv
      <3> QED BY <3>1, <1>3 DEF A!Expire, SurfaceInv, GrantsAreKept
    <2> QED BY <1>3, <2>1, <2>2, <2>3, TokensStay DEF A!Expire, SurfaceInv
  <1> QED BY <1>1, <1>2, <1>3 DEF A!Expire

LEMMA PostStep ==
  ASSUME SurfaceInv, NEW p \in Posts, A!Post(p)
  PROVE  SurfaceInv'
  <1>1. PICK route \in A!Routes, credential \in A!Credentials :
           /\ route = "token" => credential \in Users
           /\ request' = [request EXCEPT ![p] = [A!Nothing EXCEPT !.route = route, !.credential = credential, !.pc = "hook"]]
    BY DEF A!Post
  <1> DEFINE r == [A!Nothing EXCEPT !.route = route, !.credential = credential, !.pc = "hook"]
  <1>2. r \in Requests /\ GoodRequest(r, p)
    BY <1>1 DEF A!Nothing, Requests, GoodRequest
  <1>3. request' \in [Posts -> Requests] /\ \A q \in Posts : GoodRequest(request[q], q)'
    BY <1>1, <1>2, RequestChanges DEF A!Post
  <1> QED BY <1>3, TokensStay, GrantsStay, BoundsAssumption DEF A!Post, SurfaceInv

LEMMA HookStep ==
  ASSUME SurfaceInv, NEW p \in Posts, A!Hook(p)
  PROVE  SurfaceInv'
  <1>1. request[p] \in Requests /\ GoodRequest(request[p], p) /\ request[p].pc = "hook"
    BY DEF SurfaceInv, A!Hook
  <1>2. request' \in [Posts -> Requests] /\ \A q \in Posts : GoodRequest(request[q], q)'
    <2>1. CASE A!Replies(p)
      BY <2>1, RepliesIsGood DEF A!Hook
    <2>2. CASE request[p].route = "token" /\ A!Goes(p, "exchange")
      <3>1. [request[p] EXCEPT !.pc = "exchange"] \in Requests /\ GoodRequest([request[p] EXCEPT !.pc = "exchange"], p)
        BY <1>1, <2>2 DEF Requests, GoodRequest
      <3> QED BY <3>1, <2>2, GoesIsGood DEF A!Hook
    <2>3. CASE request[p].route = "mcp" /\ request[p].credential = "path" /\ A!Goes(p, "handle")
      <3>1. [request[p] EXCEPT !.pc = "handle"] \in Requests /\ GoodRequest([request[p] EXCEPT !.pc = "handle"], p)
        BY <1>1, <2>3, SurfaceAssumption DEF Requests, GoodRequest
      <3> QED BY <3>1, <2>3, GoesIsGood DEF A!Hook
    <2>4. CASE A!Goes(p, "auth")
      <3>1. [request[p] EXCEPT !.pc = "auth"] \in Requests /\ GoodRequest([request[p] EXCEPT !.pc = "auth"], p)
        BY <1>1 DEF Requests, GoodRequest
      <3> QED BY <3>1, <2>4, GoesIsGood DEF A!Hook
    <2> QED BY <2>1, <2>2, <2>3, <2>4 DEF A!Hook
  <1> QED BY <1>2, TokensStay, GrantsStay DEF A!Hook, SurfaceInv

LEMMA AuthenticateStep ==
  ASSUME SurfaceInv, NEW p \in Posts, A!Authenticate(p)
  PROVE  SurfaceInv'
  <1>1. request[p] \in Requests /\ GoodRequest(request[p], p) /\ request[p].pc = "auth"
    BY DEF SurfaceInv, A!Authenticate
  <1>2. request' \in [Posts -> Requests] /\ \A q \in Posts : GoodRequest(request[q], q)'
    <2>1. CASE A!Replies(p)
      BY <2>1, RepliesIsGood DEF A!Authenticate
    <2>2. CASE /\ request[p].credential = "secret"
               /\ request' = [request EXCEPT ![p].pc = "handle", ![p].scopes = A!Scopes]
      <3> DEFINE r == [request[p] EXCEPT !.pc = "handle", !.scopes = A!Scopes]
      <3>1. r \in Requests /\ GoodRequest(r, p)
        BY <1>1, <2>2, SurfaceAssumption DEF Requests, GoodRequest
      <3>2. request' = [request EXCEPT ![p] = r]
        BY <2>2
      <3> QED BY <3>1, <3>2, RequestChanges DEF A!Authenticate
    <2>3. CASE \E t \in DOMAIN tokens :
                 /\ tokens[t].user = request[p].credential
                 /\ request' = [request EXCEPT ![p].pc = "handle", ![p].owner = request[p].credential, ![p].scopes = tokens[t].scopes]
      <3>1. PICK t \in DOMAIN tokens :
                 /\ tokens[t].user = request[p].credential
                 /\ request' = [request EXCEPT ![p].pc = "handle", ![p].owner = request[p].credential, ![p].scopes = tokens[t].scopes]
        BY <2>3
      <3> DEFINE r == [request[p] EXCEPT !.pc = "handle", !.owner = request[p].credential, !.scopes = tokens[t].scopes]
      <3>2. /\ request[p].credential \in Users /\ tokens[t].scopes \in SUBSET A!Scopes
            /\ code[request[p].credential].state = "spent" /\ tokens[t].scopes = code[request[p].credential].scopes
        BY <3>1 DEF SurfaceInv, TokensAreSpent, A!Token
      <3>3. r \in Requests /\ GoodRequest(r, p)
        BY <1>1, <3>2, SurfaceAssumption DEF Requests, GoodRequest
      <3>4. request' = [request EXCEPT ![p] = r]
        BY <3>1
      <3> QED BY <3>3, <3>4, RequestChanges DEF A!Authenticate
    <2> QED BY <2>1, <2>2, <2>3 DEF A!Authenticate
  <1> QED BY <1>2, TokensStay, GrantsStay DEF A!Authenticate, SurfaceInv

LEMMA HandleStep ==
  ASSUME SurfaceInv, NEW p \in Posts, A!Handle(p)
  PROVE  SurfaceInv'
  <1>1. request[p] \in Requests /\ GoodRequest(request[p], p) /\ request[p].pc = "handle"
    BY DEF SurfaceInv, A!Handle
  <1>2. CASE A!Replies(p)
    BY <1>2, RepliesIsGood, TokensStay, GrantsStay DEF A!Handle, SurfaceInv
  <1>3. CASE (request[p].route = "mcp" \/ A!Required(request[p].route) \subseteq request[p].scopes) /\ A!Goes(p, "act")
    <2>1. [request[p] EXCEPT !.pc = "act"] \in Requests /\ GoodRequest([request[p] EXCEPT !.pc = "act"], p)
      BY <1>1, <1>3 DEF Requests, GoodRequest, A!Required
    <2>2. request' \in [Posts -> Requests] /\ \A q \in Posts : GoodRequest(request[q], q)'
      BY <2>1, <1>3, GoesIsGood DEF A!Handle
    <2> QED BY <2>2, TokensStay, GrantsStay DEF A!Handle, SurfaceInv
  <1> QED BY <1>2, <1>3 DEF A!Handle

LEMMA ActStep ==
  ASSUME SurfaceInv, NEW p \in Posts, A!Act(p)
  PROVE  SurfaceInv'
  <1>1. request[p].owner = IF request[p].credential \in Users THEN request[p].credential ELSE Runtime
    BY DEF SurfaceInv, A!Act, GoodRequest
  <1>2. acted' = acted \cup {[route |-> request[p].route, caller |-> request[p].credential, by |-> request[p].owner]}
    BY DEF A!Act, A!ActsFor
  <1>3. \A a \in acted' : a.by = IF a.caller \in Users THEN a.caller ELSE Runtime
    BY <1>1, <1>2 DEF SurfaceInv
  <1>4. request' \in [Posts -> Requests] /\ \A q \in Posts : GoodRequest(request[q], q)'
    BY RepliesIsGood DEF A!Act
  <1>5. request[p].credential \in Users =>
          /\ code[request[p].credential].state = "spent"
          /\ A!Required(request[p].route) \subseteq code[request[p].credential].scopes
    BY <1>1, SurfaceAssumption DEF SurfaceInv, A!Act, GoodRequest
  <1>6. GrantsAreKept'
    BY <1>2, <1>5 DEF SurfaceInv, GrantsAreKept, A!Act
  <1> QED BY <1>3, <1>4, <1>6, TokensStay DEF A!Act, SurfaceInv

LEMMA ExchangeStep ==
  ASSUME SurfaceInv, NEW p \in Posts, A!Exchange(p)
  PROVE  SurfaceInv'
  <1> DEFINE u == request[p].credential
  <1>1. request[p] \in Requests /\ GoodRequest(request[p], p) /\ request[p].pc = "exchange" /\ u \in Users /\ code[u].lock = Runtime
    BY DEF SurfaceInv, A!Exchange, A!Unlocked, GoodRequest
  <1>2. CASE A!Replies(p) /\ UNCHANGED code
    BY <1>2, RepliesIsGood, TokensStay, GrantsStay DEF A!Exchange, SurfaceInv
  <1>3. CASE code[u].state = "live" /\ code' = [code EXCEPT ![u].lock = p] /\ A!Goes(p, "commit")
    <2>1. /\ code' \in [Users -> [state : {"none", "live", "spent", "expired"}, scopes : SUBSET A!Scopes, lock : Posts \cup {Runtime}]]
          /\ \A v \in Users : code'[v].state = code[v].state /\ code'[v].scopes = code[v].scopes
          /\ code'[u].lock = p /\ \A v \in Users \ {u} : code'[v] = code[v]
      BY <1>1, <1>3 DEF SurfaceInv
    <2>2. request' = [request EXCEPT ![p] = [request[p] EXCEPT !.pc = "commit"]]
      BY <1>3 DEF A!Goes
    <2>3. request' \in [Posts -> Requests] /\ \A q \in Posts : q # p => request'[q] = request[q]
      BY <1>1, <2>2 DEF SurfaceInv, Requests
    <2>4. ASSUME NEW q \in Posts
          PROVE  GoodRequest(request[q], q)'
      <3>1. CASE q = p
        <4>1. request'[q] = [request[p] EXCEPT !.pc = "commit"]
          BY <3>1, <2>2 DEF SurfaceInv
        <4>2. request[p].owner # Runtime => request[p].owner \in Users
          BY <1>1 DEF Requests
        <4> QED BY <3>1, <4>1, <4>2, <1>1, <1>3, <2>1 DEF GoodRequest, Requests
      <3>2. CASE q # p
        <4>1. request'[q] = request[q] /\ request[q] \in Requests /\ GoodRequest(request[q], q)
          BY <3>2, <2>3 DEF SurfaceInv
        <4>2. request[q].pc = "commit" => request[q].credential \in Users \ {u}
          BY <4>1, <1>1, SurfaceAssumption DEF GoodRequest
        <4>3. request[q].owner # Runtime => request[q].owner \in Users
          BY <4>1 DEF Requests
        <4> QED BY <4>1, <4>2, <4>3, <2>1 DEF GoodRequest
      <3> QED BY <3>1, <3>2
    <2>5. TokensAreSpent'
      <3>1. \A t \in DOMAIN tokens : tokens[t].user \in Users
        BY DEF SurfaceInv, TokensAreSpent, A!Token
      <3> QED BY <3>1, <2>1 DEF SurfaceInv, TokensAreSpent, A!Exchange
    <2>6. GrantsAreKept'
      BY <2>1, GrantsStay DEF A!Exchange
    <2> QED BY <2>1, <2>3, <2>4, <2>5, <2>6 DEF A!Exchange, SurfaceInv
  <1> QED BY <1>2, <1>3 DEF A!Exchange

(* The token that a commit adds is the last, and the only one of its user. *)
LEMMA CommitTokens ==
  ASSUME SurfaceInv, NEW u \in Users, code[u].state = "live",
         code' \in [Users -> [state : {"none", "live", "spent", "expired"}, scopes : SUBSET A!Scopes, lock : Posts \cup {Runtime}]],
         code'[u].state = "spent", code'[u].scopes = code[u].scopes, \A v \in Users \ {u} : code'[v] = code[v],
         tokens' = [t \in 1..Cardinality(DOMAIN tokens) + 1 |->
                      IF t \in DOMAIN tokens THEN tokens[t]
                      ELSE [user |-> u, scopes |-> code[u].scopes, valid |-> TRUE]]
  PROVE  TokensAreSpent'
  <1>1. PICK n \in Nat : DOMAIN tokens = 1..n
    BY DEF SurfaceInv, TokensAreSpent
  <1>2. Cardinality(DOMAIN tokens) = n
    BY <1>1, FS_Interval
  <1>3. DOMAIN tokens' = 1..n + 1
    BY <1>2
  <1> DEFINE new == [user |-> u, scopes |-> code[u].scopes, valid |-> TRUE]
  <1>4. (\A t \in 1..n : tokens'[t] = tokens[t]) /\ tokens'[n + 1] = new
    BY <1>1, <1>2
  <1> HIDE DEF new
  <1>a. new \in A!Token /\ new.user = u /\ new.scopes = code[u].scopes
    <2>1. code[u].scopes \in SUBSET A!Scopes
      BY DEF SurfaceInv
    <2> QED BY <2>1 DEF A!Token, new
  <1>5. \A t \in 1..n : /\ tokens[t] \in A!Token /\ tokens[t].user \in Users \ {u}
                        /\ code[tokens[t].user].state = "spent" /\ tokens[t].scopes = code[tokens[t].user].scopes
    BY <1>1 DEF SurfaceInv, TokensAreSpent, A!Token
  <1>6. tokens'[n + 1] \in A!Token
    BY <1>4, <1>a
  <1>7. \A t \in 1..n + 1 : t \in 1..n \/ t = n + 1
    OBVIOUS
  <1>8. \A t, v \in 1..n : tokens[t].user = tokens[v].user => t = v
    BY <1>1 DEF SurfaceInv, TokensAreSpent
  <1>9. ASSUME NEW t \in 1..n + 1, NEW v \in 1..n + 1, tokens'[t].user = tokens'[v].user
        PROVE  t = v
    <2>1. tokens'[n + 1].user = u /\ \A w \in 1..n : tokens'[w].user = tokens[w].user /\ tokens[w].user # u
      BY <1>4, <1>5, <1>a
    <2>2. CASE t \in 1..n /\ v \in 1..n
      BY <2>1, <2>2, <1>8, <1>9
    <2>3. CASE ~(t \in 1..n /\ v \in 1..n)
      BY <2>1, <2>3, <1>7, <1>9, ZenonT(60)
    <2> QED BY <2>2, <2>3
  <1>10. \A t \in 1..n + 1 : /\ tokens'[t] \in A!Token
                             /\ code'[tokens'[t].user].state = "spent" /\ tokens'[t].scopes = code'[tokens'[t].user].scopes
    BY <1>4, <1>5, <1>6, <1>7, <1>a
  <1>11. n + 1 \in Nat
    OBVIOUS
  <1> QED BY <1>3, <1>9, <1>10, <1>11 DEF TokensAreSpent

LEMMA CommitStep ==
  ASSUME SurfaceInv, NEW p \in Posts, A!Commit(p)
  PROVE  SurfaceInv'
  <1> DEFINE u == request[p].credential
  <1>0. /\ request[p].pc = "commit"
        /\ \/ /\ code' = [code EXCEPT ![u].state = "spent", ![u].lock = Runtime]
              /\ tokens' = [t \in 1..Cardinality(DOMAIN tokens) + 1 |->
                              IF t \in DOMAIN tokens THEN tokens[t]
                              ELSE [user |-> u, scopes |-> code[u].scopes, valid |-> TRUE]]
           \/ code' = [code EXCEPT ![u].lock = Runtime] /\ UNCHANGED tokens
    BY SurfaceCounts DEF A!Commit
  <1>1. /\ request[p] \in Requests /\ GoodRequest(request[p], p) /\ request[p].pc = "commit"
        /\ u \in Users /\ code[u].lock = p /\ code[u].state = "live"
    BY DEF SurfaceInv, A!Commit, GoodRequest
  <1>2. request' = [request EXCEPT ![p] = A!Nothing]
    BY DEF A!Commit, A!Replies
  <1>3. request' \in [Posts -> Requests] /\ \A q \in Posts : request'[q] = IF q = p THEN A!Nothing ELSE request[q]
    BY <1>2, NothingIsGood DEF SurfaceInv
  <1>4. \/ code' = [code EXCEPT ![u].state = "spent", ![u].lock = Runtime]
        \/ code' = [code EXCEPT ![u].lock = Runtime]
    BY DEF A!Commit
  <1>5. /\ code' \in [Users -> [state : {"none", "live", "spent", "expired"}, scopes : SUBSET A!Scopes, lock : Posts \cup {Runtime}]]
        /\ code'[u].scopes = code[u].scopes /\ \A v \in Users \ {u} : code'[v] = code[v]
    BY <1>1, <1>4 DEF SurfaceInv
  <1>6. ASSUME NEW q \in Posts
        PROVE  GoodRequest(request[q], q)'
    <2>1. CASE q = p
      <3>1. GoodRequest(A!Nothing, q)'
        BY SurfaceAssumption DEF A!Nothing, GoodRequest
      <3> QED BY <2>1, <3>1, <1>3
    <2>2. CASE q # p
      <3>1. request'[q] = request[q] /\ request[q] \in Requests /\ GoodRequest(request[q], q)
        BY <2>2, <1>3 DEF SurfaceInv
      <3>2. request[q].pc = "commit" => request[q].credential \in Users \ {u}
        BY <3>1, <1>1, <2>2 DEF GoodRequest
      <3>3. request[q].owner # Runtime => request[q].owner \in Users \ {u}
        BY <3>1, <1>1 DEF Requests, GoodRequest
      <3> QED BY <3>1, <3>2, <3>3, <1>5 DEF GoodRequest
    <2> QED BY <2>1, <2>2
  <1>7. TokensAreSpent'
    <2>1. CASE /\ code' = [code EXCEPT ![u].state = "spent", ![u].lock = Runtime]
               /\ tokens' = [t \in 1..Cardinality(DOMAIN tokens) + 1 |->
                               IF t \in DOMAIN tokens THEN tokens[t]
                               ELSE [user |-> u, scopes |-> code[u].scopes, valid |-> TRUE]]
      <3>1. code'[u].state = "spent"
        BY <2>1, <1>1 DEF SurfaceInv
      <3> QED BY <3>1, <2>1, <1>1, <1>5, CommitTokens
    <2>2. CASE code' = [code EXCEPT ![u].lock = Runtime] /\ UNCHANGED tokens
      <3>1. \A v \in Users : code'[v].state = code[v].state /\ code'[v].scopes = code[v].scopes
        BY <2>2, <1>1 DEF SurfaceInv
      <3>2. \A t \in DOMAIN tokens : tokens[t].user \in Users
        BY DEF SurfaceInv, TokensAreSpent, A!Token
      <3> QED BY <3>1, <3>2, <2>2 DEF SurfaceInv, TokensAreSpent
    <2> QED BY <1>0, <2>1, <2>2
  <1>8. GrantsAreKept'
    BY <1>1, <1>5, GrantsStay DEF A!Commit
  <1> QED BY <1>3, <1>5, <1>6, <1>7, <1>8 DEF A!Commit, SurfaceInv

LEMMA SurfaceStep == SurfaceInv /\ [A!Next]_surface => SurfaceInv'
  <1> SUFFICES ASSUME SurfaceInv, [A!Next]_surface PROVE SurfaceInv'
    OBVIOUS
  <1>1. CASE A!Next
    BY <1>1, ExpireStep, AuthorizeStep, PostStep, HookStep, AuthenticateStep, HandleStep, ActStep, ExchangeStep,
       CommitStep DEF A!Next
  <1>2. CASE UNCHANGED surface
    BY <1>2 DEF surface, SurfaceInv, TokensAreSpent, GoodRequest, GrantsAreKept
  <1> QED BY <1>1, <1>2

LEMMA SurfaceIsTyped == SurfaceInv => A!TypeOK
  BY DEF SurfaceInv, TokensAreSpent, Requests, A!TypeOK

LEMMA SurfaceIsOwned == SurfaceInv => A!CallsAreOwned
  <1> SUFFICES ASSUME SurfaceInv PROVE A!CallsAreOwned
    OBVIOUS
  <1>1. \A a \in acted : a.caller \in Users /\ account[a.caller] # "disabled" =>
          A!Required(a.route) \subseteq A!ScopesFor(account[a.caller])
    BY DEF SurfaceInv, GrantsAreKept
  <1> QED BY <1>1 DEF SurfaceInv, TokensAreSpent, GrantsAreKept, A!CallsAreOwned

LEMMA SurfaceKept == Spec => [](part = "surface" => SurfaceInv)
  <1> DEFINE Inv == part = "surface" => SurfaceInv
  <1>1. Init => Inv
    BY SurfaceInit DEF Init
  <1>2. Inv /\ [Next]_vars => Inv'
    BY SurfaceStep DEF Next, vars, surface
  <1> QED BY <1>1, <1>2, PTL DEF Spec

(* A code is exchanged for one token however often it is posted.  What its *)
(* holder calls is done for the user who authorized it, and the routes     *)
(* skills and browser act only where the user, within its role, granted    *)
(* the scope that they ask for; the other compact routes ask for none      *)
(* (requireAuth, scope, scopedOps, POST /oauth/token).                     *)
THEOREM OwnedCalls == Spec => []CallsAreOwned
  <1>1. (part = "surface" => SurfaceInv) => CallsAreOwned
    BY SurfaceIsOwned DEF CallsAreOwned
  <1> QED BY <1>1, SurfaceKept, PTL

-----------------------------------------------------------------------------
(***************************************************************************)
(* The workspace.                                                          *)
(***************************************************************************)

(* Which tool a call is of, where it stands, and what it does after its    *)
(* checkpoint: the runs of deploy and stop that come next are strict.      *)
GoodCall(r) ==
  /\ r \in W!Call /\ r.base \in SUBSET W!Marks
  /\ r.pc \in {"open", "fill"} => r.op \in {"write", "edit"}
  /\ r.pc = "append" => r.op = "append"
  /\ r.pc = "read" => r.op \in {"edit", "patch", "bounded"}
  /\ r.pc \in {"temp", "rename"} => r.op \in {"patch", "bounded"}
  /\ r.pc \in {"check", "look", "undo", "restore"} => r.op = "bounded"
  /\ r.pc \in {"existing", "again"} => r.op = "context"
  /\ r.pc = "policy" => r.op \in {"ensure", "stop"}
  /\ r.pc = "run" => r.op \notin W!Edits \cup W!Saves
  /\ r.pc = "run" => r.then = "done"
  /\ r.then = "run" => r.op \in {"deploy", "stop"} /\ r.strict
  /\ r.then \in {"check", "look"} => r.op = "bounded"
  /\ r.op = "stop" => r.strict
  /\ r.op = "none" => r.pc = "idle"

FilesTyped ==
  /\ W!TypeOK
  /\ \A c \in Calls : GoodCall(working[c])

(* Edits have marks of their own, which are finished once.                 *)
OwnMarks ==
  /\ safe \subseteq 0..begun
  /\ \A c \in Calls : working[c].op \in W!Edits => working[c].n \in 1..begun /\ working[c].n \notin safe
  /\ \A c, d \in Calls : working[c].op \in W!Edits /\ working[d].op \in W!Edits /\ working[c].n = working[d].n => c = d

(* What a call that looked at the file may lose was finished after its     *)
(* look, and what it is about to rename over the file is its own text.     *)
LooksAreKept ==
  ~clash =>
    /\ content # Torn => safe \subseteq content
    /\ \A c \in Calls :
         working[c].pc \in W!Looked /\ working[c].op # "write" => safe \subseteq working[c].base \cup working[c].since
    /\ \A c \in Calls : working[c].pc \in {"rename", "restore"} => temp[W!Mine(c)] \in {NoFile, W!Text(c)}

(* A save of the project context that is alone holds, from its load on,    *)
(* what is to be found in the file of the fields that are carried over.    *)
NotesAreKept ==
  ~mixed =>
    /\ \A c, d \in Calls : working[c].op = "context" /\ working[d].op = "context" => c = d
    /\ \A c \in Calls : working[c].op = "context" /\ working[c].pc \in {"again", "trunc", "save"} =>
         W!CarriedOf(kept) \subseteq working[c].note
    /\ memory["context"] = NoFile => kept = {}
    /\ memory["context"] = Torn =>
         kept = {} \/ \E c \in Calls : working[c].op = "context" /\ working[c].pc = "save"
    /\ memory["context"] \notin {NoFile, Torn} => kept \subseteq memory["context"]

FilesInv == FilesTyped /\ OwnMarks /\ LooksAreKept /\ NotesAreKept /\ W!CoveredByCheckpoint

LEMMA NoCallIsGood == GoodCall(W!NoCall)
  <1>1. W!NoCall \in W!Call
    BY BoundsAssumption DEF W!NoCall, W!Call, W!Marks, W!Contents, W!Tools, W!Notes
  <1> QED BY <1>1 DEF GoodCall, W!NoCall, W!Edits, W!Saves

LEMMA WithIsGood ==
  ASSUME FilesTyped, NEW c \in Calls, NEW r, GoodCall(r), W!With(c, r)
  PROVE  /\ working' \in [Calls -> W!Call] /\ \A d \in Calls : GoodCall(working'[d])
         /\ \A d \in Calls : working'[d] = IF d = c THEN r ELSE working[d]
  <1>1. r \in W!Call /\ working \in [Calls -> W!Call] /\ \A d \in Calls : GoodCall(working[d])
    BY DEF FilesTyped, W!TypeOK, GoodCall
  <1> QED BY <1>1 DEF W!With

LEMMA EndsIsGood ==
  ASSUME FilesTyped, NEW c \in Calls, W!Ends(c)
  PROVE  /\ working' \in [Calls -> W!Call] /\ \A d \in Calls : GoodCall(working'[d])
         /\ \A d \in Calls : working'[d] = IF d = c THEN W!NoCall ELSE working[d]
  BY WithIsGood, NoCallIsGood DEF W!Ends

(* Of an edit that is finished, calls that look at the file are told.      *)
LEMMA TellsIsGood ==
  ASSUME NEW m \in W!Marks, NEW after \in [Calls -> W!Call], \A d \in Calls : GoodCall(after[d]),
         working' = W!Tells(m, after)
  PROVE  /\ working' \in [Calls -> W!Call] /\ \A d \in Calls : GoodCall(working'[d])
         /\ \A d \in Calls : working'[d] = IF after[d].pc \in W!Looked THEN [after[d] EXCEPT !.since = @ \cup {m}]
                                           ELSE after[d]
  <1>1. \A d \in Calls : working'[d] = IF after[d].pc \in W!Looked THEN [after[d] EXCEPT !.since = @ \cup {m}]
                                           ELSE after[d]
    BY DEF W!Tells
  <1>2. ASSUME NEW d \in Calls
        PROVE  working'[d] \in W!Call /\ GoodCall(working'[d])
    <2>1. after[d] \in W!Call /\ GoodCall(after[d])
      OBVIOUS
    <2>2. CASE after[d].pc \in W!Looked
      <3> DEFINE r == [after[d] EXCEPT !.since = @ \cup {m}]
      <3>1. r \in W!Call
        BY <2>1 DEF W!Call
      <3>2. GoodCall(r)
        BY <2>1, <3>1 DEF GoodCall, W!Call
      <3> QED BY <3>1, <3>2, <2>2, <1>1
    <2>3. CASE after[d].pc \notin W!Looked
      BY <2>1, <2>3, <1>1
    <2> QED BY <2>2, <2>3
  <1>3. working' = [d \in Calls |-> working'[d]]
    BY DEF W!Tells
  <1>4. working' \in [Calls -> W!Call]
    BY <1>2, <1>3
  <1> QED BY <1>1, <1>2, <1>4

(* The call of an edit returns.                                            *)
LEMMA FinishesIsGood ==
  ASSUME FilesTyped, NEW c \in Calls, W!Finishes(c)
  PROVE  /\ working' \in [Calls -> W!Call] /\ \A d \in Calls : GoodCall(working'[d])
         /\ safe' \subseteq W!Marks
         /\ working'[c] = W!NoCall
         /\ \/ safe' = safe /\ \A d \in Calls \ {c} : working'[d] = working[d]
            \/ /\ content # Torn /\ working[c].n \in content /\ safe' = safe \cup {working[c].n}
               /\ \A d \in Calls \ {c} :
                    working'[d] = IF working[d].pc \in W!Looked
                                  THEN [working[d] EXCEPT !.since = @ \cup {working[c].n}] ELSE working[d]
  <1>1. working \in [Calls -> W!Call] /\ \A d \in Calls : GoodCall(working[d])
    BY DEF FilesTyped, W!TypeOK
  <1>2. working[c].n \in W!Marks /\ safe \subseteq W!Marks
    BY <1>1 DEF FilesTyped, W!TypeOK, W!Call
  <1>3. CASE content # Torn /\ working[c].n \in content
    <2> DEFINE after == [working EXCEPT ![c] = W!NoCall]
    <2>1. after \in [Calls -> W!Call] /\ \A d \in Calls : GoodCall(after[d])
      BY <1>1, NoCallIsGood DEF GoodCall
    <2>2. safe' = safe \cup {working[c].n} /\ working' = W!Tells(working[c].n, after)
      BY <1>3 DEF W!Finishes
    <2> HIDE DEF after
    <2>3. /\ working' \in [Calls -> W!Call] /\ \A d \in Calls : GoodCall(working'[d])
          /\ \A d \in Calls : working'[d] = IF after[d].pc \in W!Looked THEN [after[d] EXCEPT !.since = @ \cup {working[c].n}]
                                           ELSE after[d]
      BY <2>1, <2>2, <1>2, TellsIsGood
    <2>4. after[c] = W!NoCall /\ \A d \in Calls \ {c} : after[d] = working[d]
      BY <1>1 DEF after
    <2>5. W!NoCall.pc \notin W!Looked
      BY DEF W!NoCall, W!Looked
    <2> QED BY <2>2, <2>3, <2>4, <2>5, <1>2, <1>3
  <1>4. CASE ~(content # Torn /\ working[c].n \in content)
    BY <1>4, <1>2, EndsIsGood DEF W!Finishes
  <1> QED BY <1>3, <1>4

(* Back from a checkpoint: on to what comes then, or at an end.            *)
LEMMA ReturnsIsGood ==
  ASSUME FilesTyped, NEW c \in Calls, W!Returns(c), working[c].pc \in {"trunc", "save"}
  PROVE  /\ working' \in [Calls -> W!Call] /\ \A d \in Calls : GoodCall(working'[d])
         /\ safe' \subseteq W!Marks
         /\ \/ /\ working[c].then # "done" /\ safe' = safe
               /\ \A d \in Calls : working'[d] = IF d = c THEN [working[c] EXCEPT !.pc = working[c].then, !.then = "done"]
                                                 ELSE working[d]
            \/ /\ safe' = safe /\ \A d \in Calls : working'[d] = IF d = c THEN W!NoCall ELSE working[d]
            \/ W!Finishes(c) /\ working[c].op = "patch"
  <1>1. working[c] \in W!Call /\ GoodCall(working[c]) /\ safe \subseteq W!Marks
    BY DEF FilesTyped, W!TypeOK
  <1>2. CASE working[c].then # "done"
    <2> DEFINE r == [working[c] EXCEPT !.pc = working[c].then, !.then = "done"]
    <2>1. r \in W!Call
      BY <1>1, <1>2 DEF W!Call
    <2>2. GoodCall(r)
      BY <1>1, <1>2, <2>1 DEF GoodCall, W!Call, W!Edits, W!Saves
    <2>3. W!With(c, r) /\ safe' = safe
      BY <1>2 DEF W!Returns
    <2> QED BY <2>2, <2>3, <1>1, <1>2, WithIsGood
  <1>3. CASE working[c].then = "done" /\ working[c].op = "patch"
    BY <1>3, <1>1, FinishesIsGood DEF W!Returns
  <1>4. CASE working[c].then = "done" /\ working[c].op # "patch"
    BY <1>4, <1>1, EndsIsGood DEF W!Returns
  <1> QED BY <1>2, <1>3, <1>4

Working == working' \in [Calls -> W!Call] /\ \A d \in Calls : GoodCall(working'[d])

LEMMA TypedFacts ==
  ASSUME FilesTyped, NEW c \in Calls
  PROVE  /\ working[c] \in W!Call /\ GoodCall(working[c]) /\ working[c].n \in W!Marks
         /\ W!Edited(c) \in SUBSET W!Marks /\ working[c].base \in SUBSET W!Marks
  BY DEF FilesTyped, W!TypeOK, GoodCall, W!Call, W!Edited

LEMMA TypedBegin ==
  ASSUME FilesTyped, NEW c \in Calls, NEW op \in Ops, W!Begin(c, op)
  PROVE  FilesTyped'
  <1>0. PICK fields \in SUBSET W!Fields : W!With(c, [W!NoCall EXCEPT !.op = op, !.pc = W!FirstStep(op), !.gives = fields,
               !.n = IF op \in W!Edits \cup W!Saves THEN begun + 1 ELSE 0,
               !.expected = IF op = "patch" THEN content ELSE {},
               !.strict = op \in W!Saves \cup {"commit", "deploy", "stop"},
               !.then = IF op = "deploy" THEN "run" ELSE "done"])
    BY DEF W!Begin
  <1> DEFINE r == [W!NoCall EXCEPT !.op = op, !.pc = W!FirstStep(op), !.gives = fields,
               !.n = IF op \in W!Edits \cup W!Saves THEN begun + 1 ELSE 0,
               !.expected = IF op = "patch" THEN content ELSE {},
               !.strict = op \in W!Saves \cup {"commit", "deploy", "stop"},
               !.then = IF op = "deploy" THEN "run" ELSE "done"]
  <1>1. op \in W!Tools /\ begun + 1 \in W!Marks /\ begun + 1 \in 0..MaxCalls
    BY FilesAssumption, BoundsAssumption DEF FilesTyped, W!TypeOK, W!Begin, W!Marks
  <1>2. r \in W!Call
    <2>1. W!FirstStep(op) \in {"open", "append", "read", "run", "inspect", "policy"}
      BY DEF W!FirstStep
    <2>2. W!NoCall \in W!Call /\ 0 \in W!Marks /\ content \in W!Contents /\ {} \in W!Contents
      BY NoCallIsGood, BoundsAssumption DEF GoodCall, FilesTyped, W!TypeOK, W!Contents, W!Marks
    <2>3. (IF op \in W!Edits \cup W!Saves THEN begun + 1 ELSE 0) \in W!Marks
      BY <1>1, <2>2
    <2>4. (IF op = "patch" THEN content ELSE {}) \in W!Contents
      BY <2>2
    <2> DEFINE pc == W!FirstStep(op)
               n == IF op \in W!Edits \cup W!Saves THEN begun + 1 ELSE 0
               seen == IF op = "patch" THEN content ELSE {}
               strict == op \in W!Saves \cup {"commit", "deploy", "stop"}
               then == IF op = "deploy" THEN "run" ELSE "done"
    <2>5. /\ strict \in BOOLEAN /\ then \in {"done", "run"} /\ n \in W!Marks /\ seen \in W!Contents
          /\ pc \in {"open", "append", "read", "run", "inspect", "policy"}
      BY <2>1, <2>3, <2>4
    <2> HIDE DEF pc, n, seen, strict, then
    <2>6. [W!NoCall EXCEPT !.op = op, !.pc = pc, !.gives = fields, !.n = n, !.expected = seen, !.strict = strict, !.then = then] \in W!Call
      BY <1>1, <2>2, <2>5 DEF W!Call, W!NoCall
    <2> QED BY <2>6 DEF pc, n, seen, strict, then
  <1>3. GoodCall(r)
    <2>1. r.base = {} /\ r.op = op /\ r.pc = W!FirstStep(op) /\ r.then = (IF op = "deploy" THEN "run" ELSE "done")
          /\ r.strict = (op \in W!Saves \cup {"commit", "deploy", "stop"})
      BY DEF W!NoCall
    <2> HIDE DEF r
    <2> QED BY <1>1, <1>2, <2>1 DEF GoodCall, W!FirstStep, W!Tools, W!Edits, W!Saves
  <1>4. W!With(c, r)
    BY <1>0
  <1> HIDE DEF r
  <1>5. Working
    BY <1>3, <1>4, WithIsGood DEF Working
  <1> QED BY <1>1, <1>5 DEF Working, FilesTyped, W!TypeOK, W!Begin, W!env

LEMMA TypedOpen ==
  ASSUME FilesTyped, NEW c \in Calls, W!Open(c)
  PROVE  FilesTyped'
  <1> DEFINE r == [working[c] EXCEPT !.pc = "fill"]
  <1>1. GoodCall(r)
    BY TypedFacts DEF GoodCall, W!Call, W!Open, W!At
  <1>2. Working
    BY <1>1, WithIsGood DEF Working, W!Open, W!Goes
  <1>3. content' \in W!Contents
    BY DEF W!Open, W!Contents
  <1> QED BY <1>2, <1>3 DEF Working, FilesTyped, W!TypeOK, W!Open, W!EditsOnly, W!env

LEMMA TypedFill ==
  ASSUME FilesTyped, NEW c \in Calls, W!Fill(c)
  PROVE  FilesTyped'
  <1>1. Working
    BY EndsIsGood DEF Working, W!Fill
  <1>2. content' \in W!Contents
    BY TypedFacts DEF W!Fill, W!Contents, FilesTyped, W!TypeOK
  <1>3. safe' \subseteq W!Marks
    BY DEF W!Fill, W!Overwrites, FilesTyped, W!TypeOK
  <1> QED BY <1>1, <1>2, <1>3 DEF Working, FilesTyped, W!TypeOK, W!Fill, W!EditsOnly, W!env

LEMMA TypedAppendText ==
  ASSUME FilesTyped, NEW c \in Calls, W!AppendText(c)
  PROVE  FilesTyped'
  <1>1. Working
    BY EndsIsGood DEF Working, W!AppendText
  <1>2. content' \in W!Contents
    BY TypedFacts DEF W!AppendText, W!Contents, FilesTyped, W!TypeOK
  <1> QED BY <1>1, <1>2 DEF Working, FilesTyped, W!TypeOK, W!AppendText, W!EditsOnly, W!env

LEMMA TypedReadToEdit ==
  ASSUME FilesTyped, NEW c \in Calls, W!ReadToEdit(c)
  PROVE  FilesTyped'
  <1>1. Working
    <2>1. CASE W!Ends(c)
      BY <2>1, EndsIsGood DEF Working
    <2>2. CASE /\ W!AsExpected(c)
               /\ W!With(c, [working[c] EXCEPT !.pc = IF working[c].op = "edit" THEN "open" ELSE "temp",
                                    !.base = content, !.expected = {}, !.since = {}])
      <3> DEFINE to == IF working[c].op = "edit" THEN "open" ELSE "temp"
                 r == [working[c] EXCEPT !.pc = to, !.base = content, !.expected = {}, !.since = {}]
      <3>1. content \in SUBSET W!Marks
        BY <2>2 DEF W!AsExpected, FilesTyped, W!TypeOK, W!Contents
      <3>2. \/ to = "open" /\ working[c].op = "edit"
            \/ to = "temp" /\ working[c].op \in {"patch", "bounded"}
        BY TypedFacts DEF GoodCall, W!ReadToEdit, W!At
      <3>3. W!With(c, r)
        BY <2>2
      <3> HIDE DEF to
      <3>4. r \in W!Call
        <4>1. working[c] \in W!Call
          BY DEF FilesTyped, W!TypeOK
        <4>2. to \in {"open", "temp"} /\ content \in W!Contents /\ {} \in W!Contents /\ {} \in SUBSET W!Marks
          BY <3>1, <3>2 DEF W!Contents
        <4> QED BY <4>1, <4>2 DEF W!Call
      <3>5. r.pc = to /\ r.base = content /\ r.op = working[c].op /\ r.then = working[c].then
            /\ r.strict = working[c].strict
        BY TypedFacts DEF W!Call
      <3>6. GoodCall(working[c])
        BY DEF FilesTyped
      <3> HIDE DEF r
      <3>7. GoodCall(r)
        BY <3>1, <3>2, <3>4, <3>5, <3>6 DEF GoodCall
      <3> QED BY <3>3, <3>7, WithIsGood DEF Working
    <2> QED BY <2>1, <2>2 DEF W!ReadToEdit
  <1> QED BY <1>1 DEF Working, FilesTyped, W!TypeOK, W!ReadToEdit, W!EditsOnly, W!env

LEMMA TypedWriteTemp ==
  ASSUME FilesTyped, NEW c \in Calls, W!WriteTemp(c)
  PROVE  FilesTyped'
  <1> DEFINE r == [working[c] EXCEPT !.pc = IF @ = "temp" THEN "rename" ELSE "restore", !.time = now]
  <1>1. now \in 0..MaxTicks
    BY DEF FilesTyped, W!TypeOK
  <1>2. GoodCall(r)
    <2>1. CASE working[c].pc = "temp"
      <3>1. [working[c] EXCEPT !.pc = "rename", !.time = now] \in W!Call
        BY <1>1, TypedFacts DEF W!Call
      <3> QED BY <2>1, <3>1, TypedFacts DEF GoodCall, W!Call
    <2>2. CASE working[c].pc = "undo"
      <3>1. [working[c] EXCEPT !.pc = "restore", !.time = now] \in W!Call
        BY <1>1, TypedFacts DEF W!Call
      <3> QED BY <2>2, <3>1, TypedFacts DEF GoodCall, W!Call
    <2> QED BY <2>1, <2>2 DEF W!WriteTemp
  <1>3. Working
    BY <1>2, WithIsGood DEF Working, W!WriteTemp
  <1>4. W!Text(c) \in W!Contents
    BY TypedFacts DEF W!Text, W!Contents
  <1>5. temp' \in [W!Names -> W!Contents \cup {NoFile}]
    BY <1>4 DEF W!WriteTemp, FilesTyped, W!TypeOK
  <1>6. clash' \in BOOLEAN
    BY DEF W!WriteTemp, FilesTyped, W!TypeOK
  <1> QED BY <1>3, <1>5, <1>6 DEF Working, FilesTyped, W!TypeOK, W!WriteTemp, W!EditsOnly, W!env

LEMMA TypedRename ==
  ASSUME FilesTyped, NEW c \in Calls, W!Rename(c)
  PROVE  FilesTyped'
  <1>1. temp' \in [W!Names -> W!Contents \cup {NoFile}]
    BY DEF W!Rename, FilesTyped, W!TypeOK
  <1>2. CASE W!Ends(c)
    <2>1. Working
      BY <1>2, EndsIsGood DEF Working
    <2>2. W!Mine(c) \in W!Names
      BY TypedFacts DEF W!Rename, GoodCall, W!Mine, W!TempName, W!Kind, W!Names, W!Call
    <2>3. content' \in W!Contents /\ safe' \subseteq W!Marks
      BY <2>2 DEF W!Rename, W!Overwrites, FilesTyped, W!TypeOK
    <2> QED BY <2>1, <2>3, <1>1 DEF Working, FilesTyped, W!TypeOK, W!Rename, W!EditsOnly, W!env
  <1>3. CASE ~W!Ends(c)
    <2> DEFINE r == [working[c] EXCEPT !.pc = "inspect", !.time = 0, !.since = {},
                                       !.then = IF working[c].op = "bounded" THEN "check" ELSE "done"]
    <2>1. /\ temp[W!Mine(c)] # NoFile /\ content' = temp[W!Mine(c)] /\ W!Overwrites(c)
          /\ ~W!At(c, "restore") /\ W!With(c, r)
      BY <1>3 DEF W!Rename
    <2>2. 0 \in 0..MaxTicks /\ working[c].pc = "rename" /\ working[c].op \in {"patch", "bounded"}
      BY <2>1, TypedFacts, BoundsAssumption DEF W!Rename, W!At, GoodCall
    <2>3. GoodCall(r)
      <3>1. CASE working[c].op = "bounded"
        <4>1. [working[c] EXCEPT !.pc = "inspect", !.time = 0, !.since = {}, !.then = "check"] \in W!Call
          BY <2>2, TypedFacts, ZenonT(60) DEF W!Call
        <4> QED BY <3>1, <4>1, TypedFacts DEF GoodCall, W!Call, W!Edits, W!Saves
      <3>2. CASE working[c].op = "patch"
        <4>1. [working[c] EXCEPT !.pc = "inspect", !.time = 0, !.since = {}, !.then = "done"] \in W!Call
          BY <2>2, TypedFacts, ZenonT(60) DEF W!Call
        <4> QED BY <3>2, <4>1, TypedFacts DEF GoodCall, W!Call, W!Edits, W!Saves
      <3> QED BY <2>2, <3>1, <3>2
    <2>4. Working
      BY <2>1, <2>3, WithIsGood DEF Working
    <2>5. W!Mine(c) \in W!Names
      BY TypedFacts DEF W!Rename, GoodCall, W!Mine, W!TempName, W!Kind, W!Names, W!Call
    <2>6. content' \in W!Contents /\ safe' \subseteq W!Marks
      BY <2>1, <2>5 DEF W!Overwrites, FilesTyped, W!TypeOK
    <2> QED BY <2>4, <2>6, <1>1 DEF Working, FilesTyped, W!TypeOK, W!Rename, W!EditsOnly, W!env
  <1> QED BY <1>2, <1>3

LEMMA TypedCheck ==
  ASSUME FilesTyped, NEW c \in Calls, W!Check(c)
  PROVE  FilesTyped'
  <1>1. Working /\ safe' \subseteq W!Marks
    <2>1. CASE W!Finishes(c)
      BY <2>1, FinishesIsGood DEF Working
    <2>2. CASE W!With(c, [working[c] EXCEPT !.pc = "inspect", !.then = "look"]) /\ UNCHANGED safe
      <3>1. GoodCall([working[c] EXCEPT !.pc = "inspect", !.then = "look"])
        BY TypedFacts, ZenonT(60) DEF GoodCall, W!Call, W!Check, W!At
      <3> QED BY <3>1, <2>2, WithIsGood DEF Working, FilesTyped, W!TypeOK
    <2>3. CASE W!Goes(c, "look") /\ UNCHANGED safe
      <3>1. GoodCall([working[c] EXCEPT !.pc = "look"])
        BY TypedFacts DEF GoodCall, W!Call, W!Check, W!At
      <3> QED BY <3>1, <2>3, WithIsGood DEF Working, W!Goes, FilesTyped, W!TypeOK
    <2> QED BY <2>1, <2>2, <2>3 DEF W!Check
  <1> QED BY <1>1 DEF Working, FilesTyped, W!TypeOK, W!Check, W!EditsOnly, W!env

LEMMA TypedLookBack ==
  ASSUME FilesTyped, NEW c \in Calls, W!LookBack(c)
  PROVE  FilesTyped'
  <1>1. GoodCall([working[c] EXCEPT !.pc = "undo", !.since = {}])
    BY TypedFacts, ZenonT(60) DEF GoodCall, W!Call, W!LookBack, W!At
  <1>2. Working
    BY <1>1, WithIsGood, EndsIsGood DEF Working, W!LookBack
  <1> QED BY <1>2 DEF Working, FilesTyped, W!TypeOK, W!LookBack, W!EditsOnly, W!env

LEMMA TypedInspect ==
  ASSUME FilesTyped, NEW c \in Calls, W!Inspect(c)
  PROVE  FilesTyped'
  <1>1. GoodCall([working[c] EXCEPT !.pc = IF working[c].op = "context" THEN "existing" ELSE "trunc"])
    BY TypedFacts DEF GoodCall, W!Call, W!Inspect, W!At
  <1>2. Working
    BY <1>1, WithIsGood, EndsIsGood DEF Working, W!Inspect, W!Goes
  <1>3. faults' \in 0..MaxFaults
    BY BoundsAssumption DEF W!Inspect, FilesTyped, W!TypeOK
  <1> QED BY <1>2, <1>3 DEF Working, FilesTyped, W!TypeOK, W!Inspect, W!Reads, W!env

LEMMA TypedLoadExisting ==
  ASSUME FilesTyped, NEW c \in Calls, W!LoadExisting(c)
  PROVE  FilesTyped'
  <1> DEFINE n == memory["context"]
             r == [working[c] EXCEPT !.pc = IF n \in {NoFile, Torn} THEN "trunc" ELSE "again", !.note = W!TakesOver(n)]
  <1>1. n \in W!Notes \cup {NoFile, Torn}
    BY DEF FilesTyped, W!TypeOK, W!Files
  <1>2. W!TakesOver(n) \in W!Notes
    BY <1>1 DEF W!TakesOver, W!CarriedOf, W!Notes
  <1> HIDE DEF n
  <1>3. /\ [working[c] EXCEPT !.pc = "trunc", !.note = W!TakesOver(n)] \in W!Call
        /\ [working[c] EXCEPT !.pc = "again", !.note = W!TakesOver(n)] \in W!Call
    BY <1>2, TypedFacts DEF W!Call
  <1>4. GoodCall(r)
    <2>1. CASE n \in {NoFile, Torn}
      BY <2>1, <1>3, TypedFacts DEF GoodCall, W!Call, W!LoadExisting, W!At
    <2>2. CASE n \notin {NoFile, Torn}
      BY <2>2, <1>3, TypedFacts DEF GoodCall, W!Call, W!LoadExisting, W!At
    <2> QED BY <2>1, <2>2
  <1>5. Working
    BY <1>4, WithIsGood DEF Working, W!LoadExisting, n
  <1> QED BY <1>5 DEF Working, FilesTyped, W!TypeOK, W!LoadExisting, W!Reads, W!env

LEMMA TypedInspectAgain ==
  ASSUME FilesTyped, NEW c \in Calls, W!InspectAgain(c)
  PROVE  FilesTyped'
  <1>1. GoodCall([working[c] EXCEPT !.pc = "trunc"]) /\ GoodCall([working[c] EXCEPT !.pc = "trunc", !.note = {}])
    <2>1. [working[c] EXCEPT !.pc = "trunc"] \in W!Call /\ [working[c] EXCEPT !.pc = "trunc", !.note = {}] \in W!Call
      <3>1. {} \in W!Notes
        BY DEF W!Notes
      <3> QED BY <3>1, TypedFacts, ZenonT(60) DEF W!Call
    <2> QED BY <2>1, TypedFacts DEF GoodCall, W!Call, W!InspectAgain, W!At
  <1>2. Working
    BY <1>1, WithIsGood DEF Working, W!InspectAgain, W!Goes
  <1>3. faults' \in 0..MaxFaults /\ kept' \in W!Notes
    BY BoundsAssumption DEF W!InspectAgain, FilesTyped, W!TypeOK, W!Notes
  <1> QED BY <1>2, <1>3 DEF Working, FilesTyped, W!TypeOK, W!InspectAgain, W!Reads, W!env

LEMMA TypedTruncate ==
  ASSUME FilesTyped, NEW c \in Calls, W!Truncate(c)
  PROVE  FilesTyped'
  <1>1. GoodCall([working[c] EXCEPT !.pc = "save"])
    BY TypedFacts DEF GoodCall, W!Call, W!Truncate, W!At
  <1>2. Working /\ safe' \subseteq W!Marks
    BY <1>1, WithIsGood, EndsIsGood, ReturnsIsGood DEF Working, W!Truncate, W!Goes, W!At, FilesTyped, W!TypeOK
  <1>3. faults' \in 0..MaxFaults
    BY BoundsAssumption DEF W!Truncate, FilesTyped, W!TypeOK
  <1>4. memory' \in [W!Files -> W!Notes \cup {NoFile, Torn}]
    BY DEF W!Truncate, FilesTyped, W!TypeOK
  <1> QED BY <1>2, <1>3, <1>4 DEF Working, FilesTyped, W!TypeOK, W!Truncate, W!MemoryOnly, W!env

LEMMA TypedSaveNote ==
  ASSUME FilesTyped, NEW c \in Calls, W!SaveNote(c)
  PROVE  FilesTyped'
  <1>1. W!Records(c, working[c].note) \in W!Notes /\ W!Records(c, W!CarriedOf(kept)) \in W!Notes
    <2>1. working[c].gives \in SUBSET W!Fields /\ working[c].n \in W!Marks /\ working[c].note \in W!Notes /\ kept \in W!Notes
      BY TypedFacts DEF W!Call, FilesTyped, W!TypeOK
    <2> QED BY <2>1 DEF W!Records, W!CarriedOf, W!Notes
  <1>2. Working /\ safe' \subseteq W!Marks
    BY ReturnsIsGood DEF Working, W!SaveNote, W!At
  <1>3. memory' \in [W!Files -> W!Notes \cup {NoFile, Torn}]
    BY <1>1 DEF W!SaveNote, FilesTyped, W!TypeOK
  <1>4. kept' \in W!Notes /\ covered' \subseteq Calls
    BY <1>1 DEF W!SaveNote, FilesTyped, W!TypeOK
  <1> QED BY <1>2, <1>3, <1>4 DEF Working, FilesTyped, W!TypeOK, W!SaveNote, W!MemoryOnly, W!env

(* Commands change nothing but their calls.                                *)
LEMMA TypedRuns ==
  ASSUME FilesTyped, NEW c \in Calls,
         W!RunCommand(c) \/ W!RunCheck(c) \/ W!GitCommit(c) \/ W!Deploy(c) \/ W!ReadPolicy(c) \/ W!Lifecycle(c)
  PROVE  FilesTyped'
  <1>1. Working /\ W!RunsOnly
    <2>1. CASE W!RunCommand(c) \/ W!RunCheck(c) \/ W!GitCommit(c)
      <3>1. GoodCall([working[c] EXCEPT !.pc = "inspect"])
        BY <2>1, TypedFacts DEF GoodCall, W!Call, W!RunCommand, W!RunCheck, W!GitCommit, W!At
      <3> QED BY <3>1, <2>1, WithIsGood, EndsIsGood DEF Working, W!RunCommand, W!RunCheck, W!GitCommit, W!Then
    <2>2. CASE W!Deploy(c)
      <3>1. GoodCall([working[c] EXCEPT !.pc = "inspect", !.strict = FALSE])
        BY <2>2, TypedFacts, ZenonT(60) DEF GoodCall, W!Call, W!Deploy, W!At
      <3> QED BY <3>1, <2>2, WithIsGood DEF Working, W!Deploy
    <2>3. CASE W!ReadPolicy(c)
      <3>1. working[c].op = "stop" \/ (working[c].op = "ensure" /\ working[c].then = "done")
        BY <2>3, TypedFacts DEF GoodCall, W!Call, W!ReadPolicy, W!At
      <3>2. /\ [working[c] EXCEPT !.pc = "inspect", !.then = "run"] \in W!Call
            /\ [working[c] EXCEPT !.pc = "run"] \in W!Call
        BY TypedFacts, ZenonT(60) DEF W!Call
      <3>3. working[c].op = "stop" => GoodCall([working[c] EXCEPT !.pc = "inspect", !.then = "run"])
        BY <3>2, TypedFacts DEF GoodCall, W!Call, W!Edits, W!Saves
      <3>4. working[c].op # "stop" => GoodCall([working[c] EXCEPT !.pc = "run"])
        BY <3>1, <3>2, TypedFacts DEF GoodCall, W!Call, W!Edits, W!Saves
      <3> QED BY <3>3, <3>4, <2>3, WithIsGood, EndsIsGood DEF Working, W!ReadPolicy, W!Goes
    <2>4. CASE W!Lifecycle(c)
      BY <2>4, EndsIsGood DEF Working, W!Lifecycle
    <2> QED BY <2>1, <2>2, <2>3, <2>4 DEF W!RunCommand, W!RunCheck, W!GitCommit, W!Deploy, W!ReadPolicy, W!Lifecycle
  <1> QED BY <1>1 DEF Working, FilesTyped, W!TypeOK, W!RunsOnly, W!env, W!hist

LEMMA TypedUserEdits == FilesTyped /\ W!UserEdits => FilesTyped'
  <1> SUFFICES ASSUME FilesTyped, W!UserEdits PROVE FilesTyped'
    OBVIOUS
  <1>1. 0 \in W!Marks
    BY BoundsAssumption DEF W!Marks
  <1>2. Working
    <2>1. working \in [Calls -> W!Call] /\ \A d \in Calls : GoodCall(working[d])
      BY DEF FilesTyped, W!TypeOK
    <2> QED BY <1>1, <2>1, TellsIsGood DEF Working, W!UserEdits
  <1>3. content' \in W!Contents /\ safe' \subseteq W!Marks
    BY <1>1 DEF W!UserEdits, FilesTyped, W!TypeOK, W!Contents
  <1>4. userEdits' \in 0..MaxUserEdits
    BY BoundsAssumption DEF W!UserEdits, FilesTyped, W!TypeOK
  <1> QED BY <1>2, <1>3, <1>4 DEF Working, FilesTyped, W!TypeOK, W!UserEdits

LEMMA TypedTick == FilesTyped /\ W!Tick => FilesTyped'
  <1> SUFFICES ASSUME FilesTyped, W!Tick PROVE FilesTyped'
    OBVIOUS
  <1>1. now' \in 0..MaxTicks
    BY BoundsAssumption DEF W!Tick, FilesTyped, W!TypeOK
  <1> QED BY <1>1 DEF FilesTyped, W!TypeOK, W!Tick, W!hist

LEMMA TypedRestart == FilesTyped /\ W!Restart => FilesTyped'
  <1> SUFFICES ASSUME FilesTyped, W!Restart PROVE FilesTyped'
    OBVIOUS
  <1>1. Working
    BY NoCallIsGood DEF Working, W!Restart, GoodCall
  <1>2. faults' \in 0..MaxFaults /\ safe' \subseteq W!Marks /\ kept' \in W!Notes
    BY BoundsAssumption DEF W!Restart, FilesTyped, W!TypeOK, W!Notes
  <1> QED BY <1>1, <1>2 DEF Working, FilesTyped, W!TypeOK, W!Restart, W!env

LEMMA TypedStep == FilesTyped /\ [W!Next]_files => FilesTyped'
  <1> SUFFICES ASSUME FilesTyped, [W!Next]_files PROVE FilesTyped'
    OBVIOUS
  <1>1. ASSUME NEW c \in Calls, W!CallStep(c)
        PROVE  FilesTyped'
    BY <1>1, TypedBegin, TypedOpen, TypedFill, TypedAppendText, TypedReadToEdit, TypedWriteTemp, TypedRename,
       TypedCheck, TypedLookBack, TypedInspect, TypedLoadExisting, TypedInspectAgain, TypedTruncate, TypedSaveNote,
       TypedRuns DEF W!CallStep
  <1>2. CASE UNCHANGED files
    BY <1>2 DEF files, FilesTyped, W!TypeOK
  <1> QED BY <1>1, <1>2, TypedUserEdits, TypedTick, TypedRestart DEF W!Next

LEMMA TypedInit == W!Init => FilesTyped
  <1> SUFFICES ASSUME W!Init PROVE FilesTyped
    OBVIOUS
  <1>1. working \in [Calls -> W!Call] /\ \A c \in Calls : GoodCall(working[c])
    BY NoCallIsGood DEF W!Init, GoodCall
  <1>2. 0 \in 0..MaxTicks /\ 0 \in 0..MaxCalls /\ 0 \in 0..MaxUserEdits /\ 0 \in 0..MaxFaults
    BY BoundsAssumption
  <1> QED BY <1>1, <1>2 DEF W!Init, FilesTyped, W!TypeOK, W!Contents, W!Notes

(* The call of c goes on or ends; the others go on as they were, but may   *)
(* be told of edits.                                                       *)
Like(r, s) == r.op = s.op /\ r.n = s.n /\ r.pc = s.pc /\ r.note = s.note

Moves(c) ==
  /\ \A d \in Calls \ {c} : Like(working'[d], working[d])
  /\ working'[c] = W!NoCall \/ (working'[c].op = working[c].op /\ working'[c].n = working[c].n)

LEMMA WithMeans ==
  ASSUME FilesTyped, NEW c \in Calls, NEW r, W!With(c, r)
  PROVE  working'[c] = r /\ \A d \in Calls \ {c} : working'[d] = working[d]
  BY DEF FilesTyped, W!TypeOK, W!With

LEMMA NoCallIsIdle ==
  /\ W!NoCall.op = "none" /\ W!NoCall.pc = "idle" /\ W!NoCall.n = 0
  /\ "none" \notin W!Edits \cup W!Saves /\ "idle" \notin W!Looked
  BY DEF W!NoCall, W!Edits, W!Saves, W!Looked

LEMMA MarksStay ==
  ASSUME FilesTyped, OwnMarks, NEW c \in Calls, Moves(c), UNCHANGED begun,
         \/ safe' \subseteq safe
         \/ working'[c] = W!NoCall /\ working[c].op \in W!Edits /\ safe' \subseteq safe \cup {working[c].n}
  PROVE  OwnMarks'
  <1>1. \A d \in Calls : working'[d].op \in W!Edits => working'[d].op = working[d].op /\ working'[d].n = working[d].n
    BY NoCallIsIdle DEF Moves, Like
  <1>2. CASE safe' \subseteq safe
    BY <1>1, <1>2 DEF OwnMarks
  <1>3. CASE working'[c] = W!NoCall /\ working[c].op \in W!Edits /\ safe' \subseteq safe \cup {working[c].n}
    <2>1. \A d \in Calls : working'[d].op \in W!Edits => d # c /\ working[d].n # working[c].n
      BY <1>1, <1>3, NoCallIsIdle DEF OwnMarks
    <2>2. safe' \subseteq 0..begun
      BY <1>3 DEF OwnMarks
    <2>3. \A d \in Calls : working'[d].op \in W!Edits => working'[d].n \in 1..begun /\ working'[d].n \notin safe'
      BY <2>1, <1>1, <1>3 DEF OwnMarks
    <2>4. \A d, e \in Calls : working'[d].op \in W!Edits /\ working'[e].op \in W!Edits /\ working'[d].n = working'[e].n => d = e
      BY <1>1 DEF OwnMarks
    <2> QED BY <2>2, <2>3, <2>4 DEF OwnMarks
  <1> QED BY <1>2, <1>3

LEMMA RunsStay ==
  ASSUME W!CoveredByCheckpoint, NEW c \in Calls, Moves(c), covered \subseteq covered',
         working'[c].pc = "run" => working'[c].op \notin {"deploy", "stop"} \/ c \in covered'
  PROVE  W!CoveredByCheckpoint'
  BY DEF W!CoveredByCheckpoint, W!At, Moves, Like

LEMMA NotesStay ==
  ASSUME NotesAreKept, NEW c \in Calls, Moves(c), UNCHANGED <<memory["context"], kept, mixed>>,
         working[c].op = "context" =>
           /\ working[c].pc # "save"
           /\ working'[c].pc \in {"again", "trunc", "save"} =>
                working[c].pc \in {"again", "trunc"} /\ working'[c].note = working[c].note
  PROVE  NotesAreKept'
  <1> SUFFICES ASSUME ~mixed
               PROVE  NotesAreKept'
    BY DEF NotesAreKept
  <1>1. \A d \in Calls : working'[d].op = "context" => working[d].op = "context"
    BY NoCallIsIdle DEF Moves, Like
  <1>2. \A d, e \in Calls : working'[d].op = "context" /\ working'[e].op = "context" => d = e
    BY <1>1 DEF NotesAreKept
  <1>3. \A d \in Calls : working'[d].op = "context" /\ working'[d].pc \in {"again", "trunc", "save"} =>
          W!CarriedOf(kept) \subseteq working'[d].note
    BY <1>1 DEF NotesAreKept, Moves, Like
  <1>4. \A d \in Calls : working[d].op = "context" /\ working[d].pc = "save" => working'[d].op = "context" /\ working'[d].pc = "save"
    BY DEF Moves, Like
  <1> QED BY <1>2, <1>3, <1>4 DEF NotesAreKept

LEMMA LooksStay ==
  ASSUME LooksAreKept, NEW c \in Calls, UNCHANGED <<content, temp, safe, clash>>,
         \A d \in Calls \ {c} : working'[d] = working[d], working'[c].pc \notin W!Looked
  PROVE  LooksAreKept'
  <1>1. \A d \in Calls : working'[d].pc \in W!Looked => working'[d] = working[d]
    OBVIOUS
  <1>2. {"rename", "restore"} \subseteq W!Looked
    BY DEF W!Looked
  <1>3. \A d \in Calls : working'[d].pc \in W!Looked => W!Mine(d)' = W!Mine(d) /\ W!Text(d)' = W!Text(d)
    BY <1>1 DEF W!Mine, W!Text, W!Kind, W!TempName, W!Edited
  <1> QED BY <1>1, <1>2, <1>3 DEF LooksAreKept

(* Steps that write nothing, and after which a call writes nothing on the  *)
(* strength of what it read.                                               *)
Quiet(c) ==
  /\ UNCHANGED <<content, temp, memory, safe, clash, kept, mixed, covered, begun>>
  /\ \A d \in Calls \ {c} : working'[d] = working[d]
  /\ \/ working'[c] = W!NoCall
     \/ /\ working'[c].op = working[c].op /\ working'[c].n = working[c].n /\ working'[c].pc \notin W!Looked
        /\ working[c].op = "context" => working'[c].pc \notin {"again", "trunc", "save"}
        /\ working'[c].pc = "run" => working[c].op \notin {"deploy", "stop"}
  /\ working[c].pc # "save"

LEMMA QuietStep ==
  ASSUME FilesInv, NEW c \in Calls, Quiet(c)
  PROVE  OwnMarks' /\ LooksAreKept' /\ NotesAreKept' /\ W!CoveredByCheckpoint'
  <1>1. Moves(c)
    BY DEF Quiet, Moves, Like
  <1>2. OwnMarks'
    BY <1>1, MarksStay DEF FilesInv, Quiet
  <1>3. LooksAreKept'
    BY NoCallIsIdle, LooksStay DEF FilesInv, Quiet
  <1>4. NotesAreKept'
    BY <1>1, NoCallIsIdle, NotesStay DEF FilesInv, Quiet
  <1>5. W!CoveredByCheckpoint'
    BY <1>1, NoCallIsIdle, RunsStay DEF FilesInv, Quiet
  <1> QED BY <1>2, <1>3, <1>4, <1>5

(* Steps of an edit.                                                       *)
LEMMA EditStep ==
  ASSUME FilesInv, NEW c \in Calls, Moves(c), working[c].op \in W!Edits, working'[c].pc # "run",
         W!EditsOnly,
         \/ safe' \subseteq safe
         \/ working'[c] = W!NoCall /\ safe' \subseteq safe \cup {working[c].n}
  PROVE  OwnMarks' /\ NotesAreKept' /\ W!CoveredByCheckpoint'
  <1>1. OwnMarks'
    BY MarksStay DEF FilesInv, W!EditsOnly
  <1>2. working[c].op # "context"
    BY DEF W!Edits
  <1>3. NotesAreKept'
    BY <1>2, NotesStay DEF FilesInv, W!EditsOnly
  <1>4. W!CoveredByCheckpoint'
    BY RunsStay DEF FilesInv, W!EditsOnly
  <1> QED BY <1>1, <1>3, <1>4

Others == OwnMarks' /\ LooksAreKept' /\ NotesAreKept' /\ W!CoveredByCheckpoint'

LEMMA EndsQuietly ==
  ASSUME FilesInv, NEW c \in Calls, W!Ends(c), working[c].pc # "save",
         UNCHANGED <<content, temp, memory, safe, clash, kept, mixed, covered, begun>>
  PROVE  Others
  <1>1. Quiet(c)
    BY WithMeans DEF W!Ends, Quiet, FilesInv
  <1> QED BY <1>1, QuietStep DEF Others

LEMMA GoesQuietly ==
  ASSUME FilesInv, NEW c \in Calls, NEW r, W!With(c, r), r.op = working[c].op, r.n = working[c].n,
         r.pc \notin W!Looked, working[c].pc # "save",
         r.op = "context" => r.pc \notin {"again", "trunc", "save"},
         r.pc = "run" => r.op \notin {"deploy", "stop"},
         UNCHANGED <<content, temp, memory, safe, clash, kept, mixed, covered, begun>>
  PROVE  Others
  <1>1. Quiet(c)
    BY WithMeans DEF Quiet, FilesInv
  <1> QED BY <1>1, QuietStep DEF Others

(* What the fields of an updated call are.                                 *)
LEMMA CallFields ==
  ASSUME FilesInv, NEW c \in Calls
  PROVE  /\ working[c] \in W!Call /\ GoodCall(working[c])
         /\ \A pc : /\ [working[c] EXCEPT !.pc = pc].pc = pc /\ [working[c] EXCEPT !.pc = pc].op = working[c].op
                    /\ [working[c] EXCEPT !.pc = pc].n = working[c].n
  BY DEF FilesInv, FilesTyped, W!TypeOK, W!Call

LEMMA KeptInspect ==
  ASSUME FilesInv, NEW c \in Calls, W!Inspect(c)
  PROVE  Others
  <1>1. UNCHANGED <<content, temp, memory, safe, clash, kept, mixed, covered, begun>> /\ working[c].pc = "inspect"
    BY DEF W!Inspect, W!Reads, W!At
  <1>2. CASE W!Ends(c)
    BY <1>1, <1>2, EndsQuietly
  <1>3. CASE W!Goes(c, IF working[c].op = "context" THEN "existing" ELSE "trunc")
    <2> DEFINE r == [working[c] EXCEPT !.pc = IF working[c].op = "context" THEN "existing" ELSE "trunc"]
    <2>1. /\ r.op = working[c].op /\ r.n = working[c].n /\ r.pc \in {"existing", "trunc"}
          /\ working[c].op = "context" => r.pc = "existing"
      BY CallFields DEF W!Call
    <2>2. W!With(c, r)
      BY <1>3 DEF W!Goes
    <2> HIDE DEF r
    <2> QED BY <1>1, <2>1, <2>2, GoesQuietly DEF W!Looked
  <1> QED BY <1>2, <1>3 DEF W!Inspect

LEMMA KeptRuns ==
  ASSUME FilesInv, NEW c \in Calls,
         W!RunCommand(c) \/ W!RunCheck(c) \/ W!GitCommit(c) \/ W!Deploy(c) \/ W!ReadPolicy(c) \/ W!Lifecycle(c)
  PROVE  Others
  <1>1. /\ UNCHANGED <<content, temp, memory, safe, clash, kept, mixed, covered, begun>>
        /\ working[c].pc \in {"run", "policy"} /\ working[c].op # "context"
    BY CallFields DEF GoodCall, W!Saves, W!RunsOnly, W!env, W!hist, W!At, W!RunCommand, W!RunCheck, W!GitCommit,
       W!Deploy, W!ReadPolicy, W!Lifecycle
  <1>2. CASE W!Ends(c)
    BY <1>1, <1>2, EndsQuietly
  <1>3. ASSUME NEW r, W!With(c, r), r.op = working[c].op, r.n = working[c].n, r.pc = "inspect"
        PROVE  Others
    BY <1>1, <1>3, GoesQuietly DEF W!Looked
  <1>4. CASE W!ReadPolicy(c) /\ working[c].op # "stop" /\ W!Goes(c, "run")
    <2>1. working[c].op = "ensure"
      BY <1>4, CallFields DEF GoodCall, W!ReadPolicy, W!At
    <2> DEFINE r == [working[c] EXCEPT !.pc = "run"]
    <2>2. r.op = "ensure" /\ r.n = working[c].n /\ r.pc = "run" /\ W!With(c, r)
      BY <1>4, <2>1, CallFields DEF W!Goes
    <2> HIDE DEF r
    <2> QED BY <1>1, <2>1, <2>2, GoesQuietly DEF W!Looked
  <1>5. ASSUME NEW b \in BOOLEAN, NEW t
        PROVE  /\ [working[c] EXCEPT !.pc = "inspect", !.strict = b].op = working[c].op
               /\ [working[c] EXCEPT !.pc = "inspect", !.strict = b].n = working[c].n
               /\ [working[c] EXCEPT !.pc = "inspect", !.strict = b].pc = "inspect"
               /\ [working[c] EXCEPT !.pc = "inspect", !.then = t].op = working[c].op
               /\ [working[c] EXCEPT !.pc = "inspect", !.then = t].n = working[c].n
               /\ [working[c] EXCEPT !.pc = "inspect", !.then = t].pc = "inspect"
    BY CallFields DEF W!Call
  <1>6. CASE W!RunCommand(c) \/ W!RunCheck(c) \/ W!GitCommit(c)
    BY <1>6, <1>2, <1>3, CallFields DEF W!RunCommand, W!RunCheck, W!GitCommit, W!Then
  <1>7. CASE W!Deploy(c)
    BY <1>7, <1>3, <1>5 DEF W!Deploy
  <1>8. CASE W!ReadPolicy(c)
    BY <1>8, <1>2, <1>3, <1>4, <1>5 DEF W!ReadPolicy
  <1>9. CASE W!Lifecycle(c)
    BY <1>9, <1>2 DEF W!Lifecycle
  <1> QED BY <1>6, <1>7, <1>8, <1>9

LEMMA KeptBegin ==
  ASSUME FilesInv, NEW c \in Calls, NEW op \in Ops, W!Begin(c, op)
  PROVE  Others
  <1>0. PICK fields \in SUBSET W!Fields : W!With(c, [W!NoCall EXCEPT !.op = op, !.pc = W!FirstStep(op), !.gives = fields,
               !.n = IF op \in W!Edits \cup W!Saves THEN begun + 1 ELSE 0,
               !.expected = IF op = "patch" THEN content ELSE {},
               !.strict = op \in W!Saves \cup {"commit", "deploy", "stop"},
               !.then = IF op = "deploy" THEN "run" ELSE "done"])
    BY DEF W!Begin
  <1> DEFINE r == [W!NoCall EXCEPT !.op = op, !.pc = W!FirstStep(op), !.gives = fields,
               !.n = IF op \in W!Edits \cup W!Saves THEN begun + 1 ELSE 0,
               !.expected = IF op = "patch" THEN content ELSE {},
               !.strict = op \in W!Saves \cup {"commit", "deploy", "stop"},
               !.then = IF op = "deploy" THEN "run" ELSE "done"]
  <1>1. /\ r.op = op /\ r.pc = W!FirstStep(op) /\ r.base = {} /\ r.since = {}
        /\ op \in W!Edits => r.n = begun + 1
    BY DEF W!NoCall
  <1>2. W!With(c, r)
    BY <1>0
  <1>3. working'[c] = r /\ \A d \in Calls \ {c} : working'[d] = working[d]
    BY <1>2, WithMeans DEF FilesInv
  <1> HIDE DEF r
  <1>4. /\ UNCHANGED <<content, temp, memory, safe, clash, kept>> /\ begun' = begun + 1 /\ begun \in Nat
        /\ op \in W!Tools
    BY BoundsAssumption, FilesAssumption DEF W!Begin, W!env, FilesInv, FilesTyped, W!TypeOK
  <1>5. OwnMarks'
    <2>1. safe' \subseteq 0..begun' /\ begun' \notin safe'
      BY <1>4 DEF FilesInv, OwnMarks
    <2>2. \A d \in Calls \ {c} : working'[d].op \in W!Edits => working'[d].n \in 1..begun /\ working'[d].n \notin safe'
      BY <1>3, <1>4 DEF FilesInv, OwnMarks
    <2>3. working'[c].op \in W!Edits => working'[c].n = begun'
      BY <1>1, <1>3, <1>4
    <2>4. \A d \in Calls : working'[d].op \in W!Edits => working'[d].n \in 1..begun' /\ working'[d].n \notin safe'
      BY <2>1, <2>2, <2>3, <1>4
    <2>5. \A d, e \in Calls : working'[d].op \in W!Edits /\ working'[e].op \in W!Edits /\ working'[d].n = working'[e].n => d = e
      BY <2>2, <2>3, <1>3, <1>4 DEF FilesInv, OwnMarks
    <2> QED BY <2>1, <2>4, <2>5 DEF OwnMarks
  <1>6. LooksAreKept'
    <2>1. r.pc \in W!Looked => r.op = "write" /\ r.pc = "open"
      BY <1>1, <1>4 DEF W!Looked, W!FirstStep, W!Tools, W!Edits, W!Saves
    <2>2. \A d \in Calls \ {c} : W!Mine(d)' = W!Mine(d) /\ W!Text(d)' = W!Text(d)
      BY <1>3 DEF W!Mine, W!Text, W!Kind, W!TempName, W!Edited
    <2>3. {"rename", "restore"} \subseteq W!Looked
      BY DEF W!Looked
    <2> QED BY <2>1, <2>2, <2>3, <1>3, <1>4 DEF FilesInv, LooksAreKept
  <1>7. NotesAreKept'
    <2> SUFFICES ASSUME ~mixed' PROVE NotesAreKept'
      BY DEF NotesAreKept
    <2>1. ~mixed /\ (op = "context" => \A d \in Calls : working[d].op # "context")
      BY DEF W!Begin, FilesInv, FilesTyped, W!TypeOK
    <2>2. r.op = "context" => r.pc \notin {"again", "trunc", "save"}
      BY <1>1 DEF W!FirstStep, W!Saves
    <2>3. \A d, e \in Calls : working'[d].op = "context" /\ working'[e].op = "context" => d = e
      BY <2>1, <1>1, <1>3 DEF FilesInv, NotesAreKept
    <2>4. \A d \in Calls : working'[d].op = "context" /\ working'[d].pc \in {"again", "trunc", "save"} =>
          W!CarriedOf(kept) \subseteq working'[d].note
      BY <2>1, <2>2, <1>3 DEF FilesInv, NotesAreKept
    <2>5. working[c].op # "context" \/ working[c].pc # "save"
      BY DEF W!Begin, W!At
    <2> QED BY <2>1, <2>3, <2>4, <2>5, <1>3, <1>4 DEF FilesInv, NotesAreKept
  <1>8. W!CoveredByCheckpoint'
    <2>1. r.pc = "run" => r.op \notin {"deploy", "stop"}
      BY <1>1 DEF W!FirstStep, W!Saves
    <2>2. \A d \in Calls \ {c} : d \in covered => d \in covered'
      BY DEF W!Begin
    <2> QED BY <2>1, <2>2, <1>3 DEF FilesInv, W!CoveredByCheckpoint, W!At
  <1> QED BY <1>5, <1>6, <1>7, <1>8 DEF Others

(* The steps of edits.                                                     *)
LEMMA EditFacts ==
  ASSUME FilesInv, NEW c \in Calls,
         working[c].pc \in {"open", "fill", "append", "read", "temp", "rename", "check", "look", "undo", "restore"}
  PROVE  working[c].op \in W!Edits /\ working[c] \in W!Call /\ GoodCall(working[c])
  BY CallFields DEF GoodCall, W!Edits

LEMMA EditEnds ==
  ASSUME FilesInv, NEW c \in Calls, W!Ends(c), working[c].op \in W!Edits, W!EditsOnly, safe' \subseteq safe
  PROVE  OwnMarks' /\ NotesAreKept' /\ W!CoveredByCheckpoint'
  <1>1. working'[c] = W!NoCall /\ \A d \in Calls \ {c} : working'[d] = working[d]
    BY WithMeans DEF W!Ends, FilesInv
  <1>2. Moves(c) /\ working'[c].pc # "run"
    BY <1>1, NoCallIsIdle DEF Moves, Like
  <1> QED BY <1>2, EditStep

LEMMA EditGoes ==
  ASSUME FilesInv, NEW c \in Calls, NEW r, W!With(c, r), r.op = working[c].op, r.n = working[c].n, r.pc # "run",
         working[c].op \in W!Edits, W!EditsOnly, safe' \subseteq safe
  PROVE  OwnMarks' /\ NotesAreKept' /\ W!CoveredByCheckpoint'
  <1>1. working'[c] = r /\ \A d \in Calls \ {c} : working'[d] = working[d]
    BY WithMeans DEF FilesInv
  <1>2. Moves(c) /\ working'[c].pc # "run"
    BY <1>1 DEF Moves, Like
  <1> QED BY <1>2, EditStep

(* What a call is to write is the same, when only its marks are told.      *)
LEMMA SameText ==
  ASSUME NEW d \in Calls, working'[d] = working[d]
  PROVE  W!Mine(d)' = W!Mine(d) /\ W!Text(d)' = W!Text(d) /\ W!Kind(d)' = W!Kind(d)
  BY DEF W!Mine, W!Text, W!Kind, W!TempName, W!Edited

LEMMA KeptOpen ==
  ASSUME FilesInv, NEW c \in Calls, W!Open(c)
  PROVE  Others
  <1> DEFINE r == [working[c] EXCEPT !.pc = "fill"]
  <1>1. working[c].pc = "open" /\ W!With(c, r) /\ W!EditsOnly /\ UNCHANGED <<temp, safe, clash>> /\ content' = Torn
    BY DEF W!Open, W!At, W!Goes
  <1>2. r.op = working[c].op /\ r.n = working[c].n /\ r.pc = "fill" /\ r.base = working[c].base /\ r.since = working[c].since
    BY CallFields DEF W!Call
  <1>3. working'[c] = r /\ \A d \in Calls \ {c} : working'[d] = working[d]
    BY <1>1, WithMeans DEF FilesInv
  <1> HIDE DEF r
  <1>4. OwnMarks' /\ NotesAreKept' /\ W!CoveredByCheckpoint'
    BY <1>1, <1>2, EditFacts, EditGoes
  <1>5. LooksAreKept'
    BY <1>1, <1>2, <1>3, SameText DEF FilesInv, LooksAreKept, W!Looked
  <1> QED BY <1>4, <1>5 DEF Others

LEMMA KeptFill ==
  ASSUME FilesInv, NEW c \in Calls, W!Fill(c)
  PROVE  Others
  <1>1. working[c].pc = "fill" /\ W!Ends(c) /\ W!EditsOnly /\ UNCHANGED <<temp, clash>> /\ safe' \subseteq safe
    BY DEF W!Fill, W!At, W!Overwrites
  <1>2. working'[c] = W!NoCall /\ \A d \in Calls \ {c} : working'[d] = working[d]
    BY <1>1, WithMeans DEF W!Ends, FilesInv
  <1>3. OwnMarks' /\ NotesAreKept' /\ W!CoveredByCheckpoint'
    BY <1>1, EditFacts, EditEnds
  <1>4. ~clash /\ content' # Torn => safe' \subseteq content'
    <2> SUFFICES ASSUME ~clash, content' # Torn PROVE safe' \subseteq content'
      OBVIOUS
    <2>1. CASE working[c].op = "write"
      BY <2>1 DEF W!Fill
    <2>2. CASE working[c].op # "write"
      <3>1. safe' = safe \ working[c].since /\ safe \subseteq working[c].base \cup working[c].since
        BY <2>2, <1>1 DEF W!Fill, W!Overwrites, FilesInv, LooksAreKept, W!Looked
      <3>2. content' = working[c].base \cup {working[c].n} \/ (content # Torn /\ content' = content)
        BY <2>2 DEF W!Fill, W!Edited
      <3> QED BY <3>1, <3>2 DEF FilesInv, LooksAreKept
    <2> QED BY <2>1, <2>2
  <1>5. LooksAreKept'
    BY <1>1, <1>2, <1>4, SameText, NoCallIsIdle DEF FilesInv, LooksAreKept, W!Looked
  <1> QED BY <1>3, <1>5 DEF Others

LEMMA KeptAppendText ==
  ASSUME FilesInv, NEW c \in Calls, W!AppendText(c)
  PROVE  Others
  <1>1. working[c].pc = "append" /\ W!Ends(c) /\ W!EditsOnly /\ UNCHANGED <<temp, safe, clash>>
    BY DEF W!AppendText, W!At
  <1>2. working'[c] = W!NoCall /\ \A d \in Calls \ {c} : working'[d] = working[d]
    BY <1>1, WithMeans DEF W!Ends, FilesInv
  <1>3. OwnMarks' /\ NotesAreKept' /\ W!CoveredByCheckpoint'
    BY <1>1, EditFacts, EditEnds
  <1>4. ~clash /\ content' # Torn => safe' \subseteq content'
    BY <1>1 DEF W!AppendText, FilesInv, LooksAreKept
  <1>5. LooksAreKept'
    BY <1>1, <1>2, <1>4, SameText, NoCallIsIdle DEF FilesInv, LooksAreKept, W!Looked
  <1> QED BY <1>3, <1>5 DEF Others

LEMMA KeptReadToEdit ==
  ASSUME FilesInv, NEW c \in Calls, W!ReadToEdit(c)
  PROVE  Others
  <1>1. working[c].pc = "read" /\ W!EditsOnly /\ UNCHANGED <<content, temp, safe, clash>>
    BY DEF W!ReadToEdit, W!At
  <1>2. CASE W!Ends(c)
    BY <1>1, <1>2, EndsQuietly DEF W!EditsOnly
  <1>3. CASE ~W!Ends(c)
    <2> DEFINE r == [working[c] EXCEPT !.pc = IF working[c].op = "edit" THEN "open" ELSE "temp",
                                    !.base = content, !.expected = {}, !.since = {}]
    <2>1. content # Torn /\ W!With(c, r)
      BY <1>3 DEF W!ReadToEdit, W!AsExpected
    <2>2. r.op = working[c].op /\ r.n = working[c].n /\ r.pc \in {"open", "temp"} /\ r.base = content /\ r.since = {}
      BY CallFields DEF W!Call
    <2>3. working'[c] = r /\ \A d \in Calls \ {c} : working'[d] = working[d]
      BY <2>1, WithMeans DEF FilesInv
    <2> HIDE DEF r
    <2>4. OwnMarks' /\ NotesAreKept' /\ W!CoveredByCheckpoint'
      BY <1>1, <2>1, <2>2, EditFacts, EditGoes
    <2>5. LooksAreKept'
      BY <1>1, <2>1, <2>2, <2>3, SameText DEF FilesInv, LooksAreKept, W!Looked
    <2> QED BY <2>4, <2>5 DEF Others
  <1> QED BY <1>2, <1>3

(* A temporary file is written over by another call only in a clash.       *)
LEMMA KeptWriteTemp ==
  ASSUME FilesInv, NEW c \in Calls, W!WriteTemp(c)
  PROVE  Others
  <1> DEFINE r == [working[c] EXCEPT !.pc = IF @ = "temp" THEN "rename" ELSE "restore", !.time = now]
             name == W!TempName(W!Kind(c), now)
  <1>1. /\ working[c].pc \in {"temp", "undo"} /\ W!EditsOnly /\ UNCHANGED <<content, safe>> /\ W!With(c, r)
        /\ temp' = [temp EXCEPT ![name] = W!Text(c)] /\ clash' = (clash \/ W!Clashes(c))
    BY DEF W!WriteTemp
  <1>2. /\ r.op = working[c].op /\ r.n = working[c].n /\ r.time = now /\ r.base = working[c].base /\ r.since = working[c].since
        /\ r.pc = IF working[c].pc = "temp" THEN "rename" ELSE "restore"
    BY CallFields DEF W!Call
  <1>3. working'[c] = r /\ \A d \in Calls \ {c} : working'[d] = working[d]
    BY <1>1, WithMeans DEF FilesInv
  <1>4. name \in W!Names
    BY <1>1, EditFacts DEF GoodCall, W!TempName, W!Kind, W!Names, FilesInv, FilesTyped, W!TypeOK
  <1> HIDE DEF r
  <1>5. OwnMarks' /\ NotesAreKept' /\ W!CoveredByCheckpoint'
    BY <1>1, <1>2, EditFacts, EditGoes
  <1>6. W!Mine(c)' = name /\ W!Text(c)' = W!Text(c)
    BY <1>1, <1>2, <1>3 DEF W!Mine, W!Text, W!Kind, W!TempName, W!Edited
  <1> HIDE DEF name
  <1>7. temp'[name] = W!Text(c) /\ \A x : x # name => temp'[x] = temp[x]
    BY <1>1, <1>4 DEF FilesInv, FilesTyped, W!TypeOK
  <1>8. ASSUME ~clash', NEW d \in Calls, working'[d].pc \in {"rename", "restore"}
        PROVE  temp'[W!Mine(d)'] \in {NoFile, W!Text(d)'}
    <2>1. CASE d = c
      BY <2>1, <1>6, <1>7
    <2>2. CASE d # c
      <3>1. working'[d] = working[d] /\ W!Mine(d)' = W!Mine(d) /\ W!Text(d)' = W!Text(d)
        BY <2>2, <1>3, SameText
      <3>2. ~clash /\ ~(W!Kind(d) = W!Kind(c) /\ working[d].time = now)
        BY <1>1, <1>8, <3>1 DEF W!Clashes
      <3>3. W!Mine(d) # name
        BY <3>2 DEF W!Mine, W!TempName, name
      <3>4. temp[W!Mine(d)] \in {NoFile, W!Text(d)}
        BY <1>8, <3>1, <3>2 DEF FilesInv, LooksAreKept
      <3> QED BY <3>1, <3>3, <3>4, <1>7
    <2> QED BY <2>1, <2>2
  <1>9. ASSUME ~clash', NEW d \in Calls, working'[d].pc \in W!Looked, working'[d].op # "write"
        PROVE  safe' \subseteq working'[d].base \cup working'[d].since
    <2>1. ~clash
      BY <1>1, <1>9
    <2>2. working[d].pc \in W!Looked /\ working[d].op # "write" /\ working'[d].base = working[d].base /\ working'[d].since = working[d].since
      BY <1>9, <1>1, <1>2, <1>3 DEF W!Looked
    <2> QED BY <2>1, <2>2, <1>1 DEF FilesInv, LooksAreKept
  <1>10. ~clash' => ~clash
    BY <1>1
  <1>11. LooksAreKept'
    BY <1>1, <1>8, <1>9, <1>10 DEF FilesInv, LooksAreKept
  <1> QED BY <1>5, <1>11 DEF Others

LEMMA KeptRename ==
  ASSUME FilesInv, NEW c \in Calls, W!Rename(c)
  PROVE  Others
  <1>1. /\ working[c].pc \in {"rename", "restore"} /\ W!EditsOnly /\ UNCHANGED clash
        /\ temp' = [temp EXCEPT ![W!Mine(c)] = NoFile] /\ safe' \subseteq safe
    BY DEF W!Rename, W!Overwrites
  <1>2. working[c].op \in {"patch", "bounded"} /\ W!Mine(c) \in W!Names
    BY <1>1, EditFacts DEF GoodCall, W!Mine, W!TempName, W!Kind, W!Names, W!Call
  <1>3. \A x : temp'[x] = NoFile \/ temp'[x] = temp[x]
    BY <1>1, <1>2 DEF FilesInv, FilesTyped, W!TypeOK
  <1>4. ~clash /\ content' # Torn => safe' \subseteq content'
    <2> SUFFICES ASSUME ~clash, content' # Torn PROVE safe' \subseteq content'
      OBVIOUS
    <2>1. CASE temp[W!Mine(c)] # NoFile /\ content' = temp[W!Mine(c)] /\ W!Overwrites(c)
      <3>1. content' = W!Text(c)
        BY <2>1, <1>1 DEF FilesInv, LooksAreKept
      <3>2. safe \subseteq working[c].base \cup working[c].since
        BY <1>1, <1>2 DEF FilesInv, LooksAreKept, W!Looked
      <3> QED BY <2>1, <3>1, <3>2 DEF W!Overwrites, W!Text, W!Edited
    <2>2. CASE UNCHANGED <<content, safe>>
      BY <2>2 DEF FilesInv, LooksAreKept
    <2> QED BY <2>1, <2>2 DEF W!Rename
  <1>5. \A d \in Calls \ {c} : working'[d] = working[d]
    BY WithMeans DEF W!Rename, W!Ends, FilesInv
  <1>6. CASE W!Ends(c)
    <2>1. working'[c] = W!NoCall
      BY <1>6, WithMeans DEF W!Ends, FilesInv
    <2>2. OwnMarks' /\ NotesAreKept' /\ W!CoveredByCheckpoint'
      BY <1>1, <1>6, EditFacts, EditEnds
    <2>3. LooksAreKept'
      BY <2>1, <1>1, <1>3, <1>4, <1>5, SameText, NoCallIsIdle DEF FilesInv, LooksAreKept, W!Looked
    <2> QED BY <2>2, <2>3 DEF Others
  <1>7. CASE ~W!Ends(c)
    <2> DEFINE r == [working[c] EXCEPT !.pc = "inspect", !.time = 0, !.since = {},
                                       !.then = IF working[c].op = "bounded" THEN "check" ELSE "done"]
    <2>1. W!With(c, r)
      BY <1>7 DEF W!Rename
    <2>2. r.op = working[c].op /\ r.n = working[c].n /\ r.pc = "inspect"
      BY CallFields DEF W!Call
    <2>3. working'[c] = r
      BY <2>1, WithMeans DEF FilesInv
    <2> HIDE DEF r
    <2>4. OwnMarks' /\ NotesAreKept' /\ W!CoveredByCheckpoint'
      BY <1>1, <2>1, <2>2, EditFacts, EditGoes
    <2>5. LooksAreKept'
      BY <2>2, <2>3, <1>1, <1>3, <1>4, <1>5, SameText DEF FilesInv, LooksAreKept, W!Looked
    <2> QED BY <2>4, <2>5 DEF Others
  <1> QED BY <1>6, <1>7

(* Of an edit that is over, calls that looked at the file are told.        *)
LEMMA LooksTold ==
  ASSUME FilesInv, NEW m, UNCHANGED <<temp, clash>>, safe' \subseteq safe \cup {m},
         ~clash /\ content' # Torn => safe' \subseteq content',
         \A d \in Calls : \/ working'[d] = W!NoCall
                          \/ working'[d] = working[d] /\ working[d].pc \notin W!Looked
                          \/ working'[d] = [working[d] EXCEPT !.since = @ \cup {m}]
  PROVE  LooksAreKept'
  <1>1. ASSUME NEW d \in Calls, working'[d].pc \in W!Looked
        PROVE  /\ working[d].pc = working'[d].pc /\ working[d].op = working'[d].op /\ working'[d].base = working[d].base
               /\ working'[d].since = working[d].since \cup {m}
               /\ working'[d].n = working[d].n /\ working'[d].time = working[d].time
    <2>1. working'[d] = [working[d] EXCEPT !.since = @ \cup {m}]
      BY <1>1, NoCallIsIdle
    <2> QED BY <2>1, CallFields DEF W!Call
  <1>2. ASSUME NEW d \in Calls, working'[d].pc \in W!Looked
        PROVE  W!Mine(d)' = W!Mine(d) /\ W!Text(d)' = W!Text(d)
    BY <1>2, <1>1 DEF W!Mine, W!Text, W!Kind, W!TempName, W!Edited
  <1>3. {"rename", "restore"} \subseteq W!Looked
    BY DEF W!Looked
  <1>4. ASSUME ~clash, NEW d \in Calls, working'[d].pc \in W!Looked, working'[d].op # "write"
        PROVE  safe' \subseteq working'[d].base \cup working'[d].since
    <2>1. safe \subseteq working[d].base \cup working[d].since
      BY <1>4, <1>1 DEF FilesInv, LooksAreKept
    <2> QED BY <2>1, <1>4, <1>1
  <1>5. ASSUME ~clash, NEW d \in Calls, working'[d].pc \in {"rename", "restore"}
        PROVE  temp'[W!Mine(d)'] \in {NoFile, W!Text(d)'}
    <2>1. working[d].pc \in {"rename", "restore"} /\ W!Mine(d)' = W!Mine(d) /\ W!Text(d)' = W!Text(d)
      BY <1>1, <1>2, <1>3, <1>5
    <2> QED BY <2>1, <1>5 DEF FilesInv, LooksAreKept
  <1> QED BY <1>4, <1>5 DEF LooksAreKept

LEMMA KeptFinishes ==
  ASSUME FilesInv, NEW c \in Calls, W!Finishes(c), working[c].op \in W!Edits,
         UNCHANGED <<content, temp, clash, begun>>
  PROVE  OwnMarks' /\ LooksAreKept' /\ Moves(c) /\ working'[c] = W!NoCall
  <1> DEFINE m == working[c].n
  <1>1. /\ working'[c] = W!NoCall
        /\ \/ safe' = safe /\ \A d \in Calls \ {c} : working'[d] = working[d]
           \/ /\ content # Torn /\ m \in content /\ safe' = safe \cup {m}
              /\ \A d \in Calls \ {c} :
                   working'[d] = IF working[d].pc \in W!Looked THEN [working[d] EXCEPT !.since = @ \cup {m}] ELSE working[d]
    BY FinishesIsGood DEF FilesInv
  <1>2. Moves(c)
    <2>1. \A d \in Calls : Like([working[d] EXCEPT !.since = @ \cup {m}], working[d])
      BY CallFields DEF Like, W!Call
    <2> QED BY <1>1, <2>1 DEF Moves, Like
  <1>3. OwnMarks'
    BY <1>1, <1>2, MarksStay DEF FilesInv
  <1>4. CASE safe' = safe /\ \A d \in Calls \ {c} : working'[d] = working[d]
    BY <1>1, <1>2, <1>3, <1>4, NoCallIsIdle, LooksStay DEF FilesInv
  <1>5. CASE /\ content # Torn /\ m \in content /\ safe' = safe \cup {m}
             /\ \A d \in Calls \ {c} :
                   working'[d] = IF working[d].pc \in W!Looked THEN [working[d] EXCEPT !.since = @ \cup {m}] ELSE working[d]
    <2>1. ~clash /\ content' # Torn => safe' \subseteq content'
      BY <1>5 DEF FilesInv, LooksAreKept
    <2>2. LooksAreKept'
      BY <2>1, <1>1, <1>5, LooksTold
    <2> QED BY <2>2, <1>1, <1>2, <1>3
  <1> QED BY <1>1, <1>4, <1>5

LEMMA KeptCheck ==
  ASSUME FilesInv, NEW c \in Calls, W!Check(c)
  PROVE  Others
  <1>1. working[c].pc = "check" /\ W!EditsOnly /\ UNCHANGED <<content, temp, clash>> /\ working[c].op \in W!Edits
    BY EditFacts DEF W!Check, W!At
  <1>2. CASE W!Finishes(c)
    <2>1. OwnMarks' /\ LooksAreKept' /\ Moves(c) /\ working'[c] = W!NoCall
      BY <1>1, <1>2, KeptFinishes DEF W!EditsOnly
    <2>2. safe' \subseteq safe \/ safe' \subseteq safe \cup {working[c].n}
      BY <1>2 DEF W!Finishes
    <2> QED BY <1>1, <2>1, <2>2, NoCallIsIdle, EditStep DEF Others
  <1>3. CASE W!With(c, [working[c] EXCEPT !.pc = "inspect", !.then = "look"]) /\ UNCHANGED safe
    <2> DEFINE r == [working[c] EXCEPT !.pc = "inspect", !.then = "look"]
    <2>1. r.op = working[c].op /\ r.n = working[c].n /\ r.pc = "inspect" /\ W!With(c, r)
      BY <1>3, CallFields DEF W!Call
    <2>2. r.op # "context"
      BY <2>1, <1>1 DEF W!Edits
    <2> HIDE DEF r
    <2> QED BY <1>1, <1>3, <2>1, <2>2, GoesQuietly DEF W!Looked, W!EditsOnly
  <1>4. CASE W!Goes(c, "look") /\ UNCHANGED safe
    <2> DEFINE r == [working[c] EXCEPT !.pc = "look"]
    <2>1. r.op = working[c].op /\ r.n = working[c].n /\ r.pc = "look" /\ W!With(c, r)
      BY <1>4, CallFields DEF W!Goes
    <2>2. r.op # "context"
      BY <2>1, <1>1 DEF W!Edits
    <2> HIDE DEF r
    <2> QED BY <1>1, <1>4, <2>1, <2>2, GoesQuietly DEF W!Looked, W!EditsOnly
  <1> QED BY <1>2, <1>3, <1>4 DEF W!Check

(* A rollback is of the text before an edit that is not finished.          *)
LEMMA KeptLookBack ==
  ASSUME FilesInv, NEW c \in Calls, W!LookBack(c)
  PROVE  Others
  <1>1. working[c].pc = "look" /\ W!EditsOnly /\ UNCHANGED <<content, temp, safe, clash>>
    BY DEF W!LookBack, W!At
  <1>2. CASE W!Ends(c)
    BY <1>1, <1>2, EndsQuietly DEF W!EditsOnly
  <1>3. CASE ~W!Ends(c)
    <2> DEFINE r == [working[c] EXCEPT !.pc = "undo", !.since = {}]
    <2>1. W!StillMine(c) /\ W!With(c, r)
      BY <1>3 DEF W!LookBack
    <2>2. r.op = working[c].op /\ r.n = working[c].n /\ r.pc = "undo" /\ r.base = working[c].base /\ r.since = {}
      BY CallFields DEF W!Call
    <2>3. working'[c] = r /\ \A d \in Calls \ {c} : working'[d] = working[d]
      BY <2>1, WithMeans DEF FilesInv
    <2> HIDE DEF r
    <2>4. OwnMarks' /\ NotesAreKept' /\ W!CoveredByCheckpoint'
      BY <1>1, <2>1, <2>2, EditFacts, EditGoes
    <2>5. content = working[c].base \cup {working[c].n} /\ content \in SUBSET W!Marks
      BY <2>1, TypedFacts DEF W!StillMine, W!Edited, FilesInv
    <2>6. content # Torn
      BY <2>5, FilesAssumption
    <2>7. working[c].n \notin safe
      BY <1>1, EditFacts DEF FilesInv, OwnMarks
    <2>8. ~clash => safe \subseteq working[c].base
      BY <2>5, <2>6, <2>7 DEF FilesInv, LooksAreKept
    <2>9. LooksAreKept'
      BY <1>1, <2>2, <2>3, <2>8, SameText DEF FilesInv, LooksAreKept, W!Looked
    <2> QED BY <2>4, <2>9 DEF Others
  <1> QED BY <1>2, <1>3

(* The steps of checkpoints and of the project context.                    *)
LEMMA KeptLoadExisting ==
  ASSUME FilesInv, NEW c \in Calls, W!LoadExisting(c)
  PROVE  Others
  <1> DEFINE n == memory["context"]
             r == [working[c] EXCEPT !.pc = IF n \in {NoFile, Torn} THEN "trunc" ELSE "again",
                                     !.note = W!TakesOver(n)]
  <1>1. /\ working[c].pc = "existing" /\ working[c].op = "context" /\ W!With(c, r)
        /\ UNCHANGED <<content, temp, memory, safe, clash, kept, mixed, covered, begun>>
    BY CallFields DEF GoodCall, W!LoadExisting, W!At, W!Reads
  <1>2. /\ r.op = working[c].op /\ r.n = working[c].n /\ r.pc \in {"trunc", "again"} /\ r.note = W!TakesOver(n)
    BY CallFields DEF W!Call
  <1>3. working'[c] = r /\ \A d \in Calls \ {c} : working'[d] = working[d]
    BY <1>1, WithMeans DEF FilesInv
  <1> HIDE DEF r
  <1>4. Moves(c) /\ working'[c].pc \notin W!Looked
    BY <1>2, <1>3 DEF Moves, Like, W!Looked
  <1>5. OwnMarks' /\ LooksAreKept' /\ W!CoveredByCheckpoint'
    BY <1>1, <1>2, <1>3, <1>4, MarksStay, LooksStay, RunsStay DEF FilesInv
  <1>6. ASSUME ~mixed PROVE W!CarriedOf(kept) \subseteq r.note
    BY <1>1, <1>2, <1>6 DEF FilesInv, NotesAreKept, W!TakesOver, W!CarriedOf
  <1>7. NotesAreKept'
    BY <1>1, <1>2, <1>3, <1>6 DEF FilesInv, NotesAreKept, W!CarriedOf
  <1> QED BY <1>5, <1>7 DEF Others

LEMMA KeptInspectAgain ==
  ASSUME FilesInv, NEW c \in Calls, W!InspectAgain(c)
  PROVE  Others
  <1>1. /\ working[c].pc = "again" /\ working[c].op = "context"
        /\ UNCHANGED <<content, temp, memory, safe, clash, mixed, covered, begun>>
    BY CallFields DEF GoodCall, W!InspectAgain, W!At, W!Reads
  <1>2. PICK r : /\ W!With(c, r) /\ r.op = working[c].op /\ r.n = working[c].n /\ r.pc = "trunc"
                 /\ (kept' = kept /\ r.note = working[c].note) \/ kept' = {}
    <2>1. CASE W!Goes(c, "trunc") /\ UNCHANGED kept
      BY <2>1, CallFields DEF W!Goes, W!Call
    <2>2. CASE W!With(c, [working[c] EXCEPT !.pc = "trunc", !.note = {}]) /\ kept' = {}
      BY <2>2, CallFields DEF W!Call
    <2> QED BY <2>1, <2>2 DEF W!InspectAgain
  <1>3. working'[c] = r /\ \A d \in Calls \ {c} : working'[d] = working[d]
    BY <1>2, WithMeans DEF FilesInv
  <1>4. Moves(c) /\ working'[c].pc \notin W!Looked
    BY <1>2, <1>3 DEF Moves, Like, W!Looked
  <1>5. OwnMarks' /\ LooksAreKept' /\ W!CoveredByCheckpoint'
    BY <1>1, <1>2, <1>3, <1>4, MarksStay, LooksStay, RunsStay DEF FilesInv
  <1>6. NotesAreKept'
    <2>1. CASE kept' = kept /\ r.note = working[c].note
      BY <1>1, <1>2, <1>3, <1>4, <2>1, NotesStay DEF FilesInv
    <2>2. CASE kept' = {}
      BY <1>1, <1>2, <1>3, <2>2 DEF FilesInv, NotesAreKept, W!CarriedOf
    <2> QED BY <1>2, <2>1, <2>2
  <1> QED BY <1>5, <1>6 DEF Others

(* A call that is back from its checkpoint goes on, or is over.            *)
LEMMA KeptReturns ==
  ASSUME FilesInv, NEW c \in Calls, W!Returns(c), working[c].pc \in {"trunc", "save"},
         UNCHANGED <<content, temp, clash, begun>>
  PROVE  /\ OwnMarks' /\ LooksAreKept' /\ Moves(c)
         /\ \/ working'[c] = W!NoCall
            \/ /\ working'[c].pc = working[c].then /\ working[c].then \in {"check", "look", "run"}
               /\ working'[c].op = working[c].op
  <1>1. working[c] \in W!Call /\ GoodCall(working[c])
    BY CallFields
  <1>2. CASE /\ working[c].then # "done" /\ safe' = safe
             /\ \A d \in Calls : working'[d] = IF d = c THEN [working[c] EXCEPT !.pc = working[c].then, !.then = "done"]
                                               ELSE working[d]
    <2> DEFINE r == [working[c] EXCEPT !.pc = working[c].then, !.then = "done"]
    <2>1. r.op = working[c].op /\ r.n = working[c].n /\ r.pc = working[c].then /\ r.pc \in {"check", "look", "run"}
      BY <1>1, <1>2 DEF W!Call
    <2>2. working'[c] = r /\ \A d \in Calls \ {c} : working'[d] = working[d]
      BY <1>2
    <2> HIDE DEF r
    <2>3. Moves(c) /\ working'[c].pc \notin W!Looked
      BY <2>1, <2>2 DEF Moves, Like, W!Looked
    <2> QED BY <1>2, <2>1, <2>2, <2>3, MarksStay, LooksStay DEF FilesInv
  <1>3. CASE safe' = safe /\ \A d \in Calls : working'[d] = IF d = c THEN W!NoCall ELSE working[d]
    <2>1. Moves(c) /\ working'[c].pc \notin W!Looked /\ working'[c] = W!NoCall
      BY <1>3, NoCallIsIdle DEF Moves, Like
    <2> QED BY <1>3, <2>1, MarksStay, LooksStay DEF FilesInv
  <1>4. CASE W!Finishes(c) /\ working[c].op = "patch"
    <2>1. working[c].op \in W!Edits
      BY <1>4 DEF W!Edits
    <2> QED BY <1>4, <2>1, KeptFinishes
  <1> QED BY <1>2, <1>3, <1>4, ReturnsIsGood DEF FilesInv

LEMMA KeptTruncate ==
  ASSUME FilesInv, NEW c \in Calls, W!Truncate(c)
  PROVE  Others
  <1>1. working[c].pc = "trunc" /\ UNCHANGED <<content, temp, clash, begun, mixed, covered, kept>>
    BY DEF W!Truncate, W!At, W!MemoryOnly
  <1>2. CASE memory' = [memory EXCEPT ![W!FileOf(c)] = Torn] /\ W!Goes(c, "save") /\ UNCHANGED safe
    <2> DEFINE r == [working[c] EXCEPT !.pc = "save"]
    <2>1. /\ W!With(c, r) /\ r.op = working[c].op /\ r.n = working[c].n /\ r.pc = "save" /\ r.note = working[c].note
      BY <1>2, CallFields DEF W!Goes, W!Call
    <2>2. working'[c] = r /\ \A d \in Calls \ {c} : working'[d] = working[d]
      BY <2>1, WithMeans DEF FilesInv
    <2> HIDE DEF r
    <2>3. Moves(c) /\ working'[c].pc \notin W!Looked
      BY <2>1, <2>2 DEF Moves, Like, W!Looked
    <2>4. OwnMarks' /\ LooksAreKept' /\ W!CoveredByCheckpoint'
      BY <1>1, <1>2, <2>1, <2>2, <2>3, MarksStay, LooksStay, RunsStay DEF FilesInv
    <2>5. NotesAreKept'
      <3>1. CASE working[c].op = "context"
        <4>1. memory'["context"] = Torn
          BY <1>2, <3>1 DEF W!FileOf, W!Saves, W!Files, FilesInv, FilesTyped, W!TypeOK
        <4> QED BY <1>1, <2>1, <2>2, <3>1, <4>1, FilesAssumption DEF FilesInv, NotesAreKept
      <3>2. CASE working[c].op # "context"
        <4>1. memory'["context"] = memory["context"]
          BY <1>2, <3>2 DEF W!FileOf, W!Saves, W!Files, FilesInv, FilesTyped, W!TypeOK
        <4> QED BY <1>1, <2>3, <3>2, <4>1, NotesStay DEF FilesInv
      <3> QED BY <3>1, <3>2
    <2> QED BY <2>4, <2>5 DEF Others
  <1>3. CASE W!Ends(c) /\ UNCHANGED <<memory, safe>>
    BY <1>1, <1>3, EndsQuietly
  <1>4. CASE ~W!Strict(c) /\ W!Returns(c) /\ UNCHANGED memory
    <2>1. /\ OwnMarks' /\ LooksAreKept' /\ Moves(c)
          /\ \/ working'[c] = W!NoCall
             \/ /\ working'[c].pc = working[c].then /\ working[c].then \in {"check", "look", "run"}
                /\ working'[c].op = working[c].op
      BY <1>1, <1>4, KeptReturns
    <2>2. working'[c].pc \notin {"run", "again", "trunc", "save"}
      BY <2>1, <1>4, CallFields, NoCallIsIdle DEF GoodCall, W!Strict
    <2>3. NotesAreKept'
      BY <1>1, <1>4, <2>1, <2>2, NotesStay DEF FilesInv
    <2>4. W!CoveredByCheckpoint'
      BY <1>1, <2>1, <2>2, RunsStay DEF FilesInv
    <2> QED BY <2>1, <2>3, <2>4 DEF Others
  <1> QED BY <1>2, <1>3, <1>4 DEF W!Truncate

LEMMA KeptSaveNote ==
  ASSUME FilesInv, NEW c \in Calls, W!SaveNote(c)
  PROVE  Others
  <1>1. /\ working[c].pc = "save" /\ W!Returns(c) /\ UNCHANGED <<content, temp, clash, begun, mixed>>
        /\ memory' = [memory EXCEPT ![W!FileOf(c)] = W!Records(c, working[c].note)]
        /\ kept' = IF working[c].op = "context" THEN W!Records(c, W!CarriedOf(kept)) ELSE kept
        /\ covered' = IF W!FileOf(c) = "recovery" THEN covered \cup {d \in Calls : ~W!At(d, "idle")} ELSE covered
    BY DEF W!SaveNote, W!At, W!MemoryOnly
  <1>2. /\ OwnMarks' /\ LooksAreKept' /\ Moves(c)
        /\ \/ working'[c] = W!NoCall
           \/ /\ working'[c].pc = working[c].then /\ working[c].then \in {"check", "look", "run"}
              /\ working'[c].op = working[c].op
    BY <1>1, KeptReturns
  <1>3. W!CoveredByCheckpoint'
    <2>1. working'[c].pc = "run" /\ working'[c].op \in {"deploy", "stop"} => c \in covered'
      BY <1>1, <1>2, NoCallIsIdle DEF W!FileOf, W!Saves, W!At
    <2> QED BY <1>1, <1>2, <2>1, RunsStay DEF FilesInv
  <1>4. NotesAreKept'
    <2>1. working'[c].pc \notin {"again", "trunc", "save"}
      BY <1>2, NoCallIsIdle
    <2>2. CASE working[c].op = "context"
      <3>1. memory'["context"] = W!Records(c, working[c].note)
        BY <1>1, <2>2 DEF W!FileOf, W!Saves, W!Files, FilesInv, FilesTyped, W!TypeOK
      <3>2. memory'["context"] \notin {NoFile, Torn}
        <4>1. /\ working[c].gives \in SUBSET W!Fields /\ working[c].n \in W!Marks /\ working[c].note \in W!Notes
          BY TypedFacts DEF FilesInv, W!Call
        <4>2. memory'["context"] \in W!Notes
          BY <3>1, <4>1 DEF W!Records, W!Notes
        <4> QED BY <4>2, FilesAssumption
      <3> SUFFICES ASSUME ~mixed PROVE NotesAreKept'
        BY <1>1 DEF NotesAreKept
      <3>3. kept' \subseteq memory'["context"]
        <4>1. W!CarriedOf(kept) \subseteq working[c].note
          BY <1>1, <2>2 DEF FilesInv, NotesAreKept
        <4> QED BY <4>1, <1>1, <2>2, <3>1 DEF W!Records
      <3>4. \A d \in Calls : working'[d].op = "context" => working[d].op = "context" /\ d = c
        BY <1>2, <2>2, NoCallIsIdle DEF Moves, Like, FilesInv, NotesAreKept
      <3> QED BY <2>1, <3>2, <3>3, <3>4 DEF NotesAreKept
    <2>3. CASE working[c].op # "context"
      <3>1. memory'["context"] = memory["context"] /\ kept' = kept
        BY <1>1, <2>3 DEF W!FileOf, W!Saves, W!Files, FilesInv, FilesTyped, W!TypeOK
      <3> QED BY <1>1, <1>2, <2>3, <3>1, NotesStay DEF FilesInv
    <2> QED BY <2>2, <2>3
  <1> QED BY <1>2, <1>3, <1>4 DEF Others

LEMMA KeptUserEdits == FilesInv /\ W!UserEdits => Others
  <1> SUFFICES ASSUME FilesInv, W!UserEdits PROVE Others
    OBVIOUS
  <1>1. UNCHANGED <<temp, memory, clash, covered, kept, mixed, begun>> /\ content # Torn
    BY DEF W!UserEdits
  <1>2. safe' \subseteq safe \cup {0}
    BY DEF W!UserEdits
  <1>3. ASSUME NEW d \in Calls
        PROVE  \/ working'[d] = working[d] /\ (working[d].pc \notin W!Looked \/ working' = working)
               \/ working'[d] = [working[d] EXCEPT !.since = @ \cup {0}]
    BY DEF W!UserEdits, W!Tells
  <1>4. \A d \in Calls : Like(working'[d], working[d])
    BY <1>3, CallFields DEF Like, W!Call
  <1>5. OwnMarks'
    <2>1. safe' \subseteq 0..begun
      BY <1>2, BoundsAssumption DEF FilesInv, FilesTyped, W!TypeOK, OwnMarks
    <2> QED BY <1>1, <1>2, <1>4, <2>1 DEF FilesInv, OwnMarks, Like
  <1>6. NotesAreKept' /\ W!CoveredByCheckpoint'
    BY <1>1, <1>4 DEF FilesInv, NotesAreKept, W!CoveredByCheckpoint, W!At, Like
  <1>7. ~clash => safe' \subseteq content'
    BY <1>1 DEF W!UserEdits, FilesInv, LooksAreKept
  <1>8. LooksAreKept'
    <2>1. CASE 0 \in content
      <3>1. safe' \subseteq safe /\ working' = working
        BY <2>1 DEF W!UserEdits
      <3> QED BY <3>1, <1>1, <1>7, SameText DEF FilesInv, LooksAreKept
    <2>2. CASE 0 \notin content
      <3>1. \A d \in Calls : \/ working'[d] = working[d] /\ working[d].pc \notin W!Looked
                            \/ working'[d] = [working[d] EXCEPT !.since = @ \cup {0}]
        BY <2>2 DEF W!UserEdits, W!Tells
      <3> QED BY <3>1, <1>1, <1>2, <1>7, LooksTold
    <2> QED BY <2>1, <2>2
  <1> QED BY <1>5, <1>6, <1>8 DEF Others

LEMMA NothingKept ==
  ASSUME FilesInv, UNCHANGED <<content, temp, memory, working, safe, clash, covered, kept, mixed, begun>>
  PROVE  Others
  <1>1. OwnMarks' /\ NotesAreKept' /\ W!CoveredByCheckpoint'
    BY DEF FilesInv, OwnMarks, NotesAreKept, W!CoveredByCheckpoint, W!At
  <1>2. LooksAreKept'
    BY SameText DEF FilesInv, LooksAreKept
  <1> QED BY <1>1, <1>2 DEF Others

LEMMA KeptTick == FilesInv /\ W!Tick => Others
  BY NothingKept DEF W!Tick, W!hist

LEMMA KeptRestart == FilesInv /\ W!Restart => Others
  <1> SUFFICES ASSUME FilesInv, W!Restart PROVE Others
    OBVIOUS
  <1>1. /\ UNCHANGED <<content, temp, memory, clash, covered, mixed, begun>>
        /\ \A c \in Calls : working'[c] = W!NoCall
        /\ safe' \subseteq safe /\ (memory["context"] = Torn => kept' = {}) /\ kept' \subseteq kept
    BY DEF W!Restart
  <1>2. OwnMarks' /\ W!CoveredByCheckpoint'
    BY <1>1, NoCallIsIdle DEF FilesInv, OwnMarks, W!CoveredByCheckpoint, W!At
  <1>3. LooksAreKept'
    BY <1>1, NoCallIsIdle DEF FilesInv, LooksAreKept, W!Looked
  <1>4. NotesAreKept'
    BY <1>1, NoCallIsIdle DEF FilesInv, NotesAreKept
  <1> QED BY <1>2, <1>3, <1>4 DEF Others

LEMMA FilesStep == FilesInv /\ [W!Next]_files => FilesInv'
  <1> SUFFICES ASSUME FilesInv, [W!Next]_files PROVE FilesInv'
    OBVIOUS
  <1>1. FilesTyped'
    BY TypedStep DEF FilesInv
  <1>2. ASSUME NEW c \in Calls, W!CallStep(c)
        PROVE  Others
    BY <1>2, KeptBegin, KeptOpen, KeptFill, KeptAppendText, KeptReadToEdit, KeptWriteTemp, KeptRename, KeptCheck,
       KeptLookBack, KeptInspect, KeptLoadExisting, KeptInspectAgain, KeptTruncate, KeptSaveNote, KeptRuns
       DEF W!CallStep
  <1>3. ASSUME UNCHANGED files PROVE Others
    BY <1>3, NothingKept DEF files
  <1> QED BY <1>1, <1>2, <1>3, KeptUserEdits, KeptTick, KeptRestart DEF W!Next, Others, FilesInv

LEMMA FilesInit == W!Init => FilesInv
  <1> SUFFICES ASSUME W!Init PROVE FilesInv
    OBVIOUS
  <1>1. FilesTyped /\ \A c \in Calls : working[c] = W!NoCall
    BY TypedInit DEF W!Init
  <1>2. OwnMarks /\ LooksAreKept /\ W!CoveredByCheckpoint
    BY <1>1, NoCallIsIdle DEF W!Init, OwnMarks, LooksAreKept, W!CoveredByCheckpoint, W!At, W!Looked
  <1>3. NotesAreKept
    BY <1>1, NoCallIsIdle, FilesAssumption DEF W!Init, NotesAreKept, W!Files
  <1> QED BY <1>1, <1>2, <1>3 DEF FilesInv

LEMMA FilesKept == Spec => [](part = "files" => FilesInv)
  <1> DEFINE Inv == part = "files" => FilesInv
  <1>1. Init => Inv
    BY FilesInit DEF Init
  <1>2. Inv /\ [Next]_vars => Inv'
    BY FilesStep DEF Next, vars, files
  <1> QED BY <1>1, <1>2, PTL DEF Spec

(* No call takes back an edit that was finished before it looked, for any  *)
(* number of calls and users that edit the same file: a patch compares, a  *)
(* rename is of the call's own text, and a rollback is of a text that only *)
(* this call changed (patch_file, edit_file, bounded_edit_and_check).      *)
THEOREM Survives == Spec => []EditsSurvive
  <1>1. (part = "files" => FilesInv) => EditsSurvive
    BY DEF FilesInv, LooksAreKept, EditsSurvive, W!FinishedEditsSurvive
  <1> QED BY <1>1, FilesKept, PTL

(* The project context holds what was recorded last in each field that     *)
(* saves carry over, as long as they do not overlap: each merges into what *)
(* it loaded, but for client and metadata, which are those of the last     *)
(* (saveProjectContext).                                                   *)
THEOREM Merges == Spec => []ContextKept
  <1>1. (part = "files" => FilesInv) => ContextKept
    BY DEF FilesInv, NotesAreKept, ContextKept, W!ContextKept
  <1> QED BY <1>1, FilesKept, PTL

(* A deployment and an automatic stop run behind a checkpoint that was     *)
(* saved since their call began, whatever other calls do                   *)
(* (runDeployment, projectLifecycle).                                      *)
THEOREM Covered == Spec => []CoveredByCheckpoint
  <1>1. (part = "files" => FilesInv) => CoveredByCheckpoint
    BY DEF FilesInv, CoveredByCheckpoint
  <1> QED BY <1>1, FilesKept, PTL

-----------------------------------------------------------------------------
(***************************************************************************)
(* All of them.                                                            *)
(***************************************************************************)

LEMMA PartsAre == Spec => [](part \in Parts)
  <1>1. Init => part \in Parts
    BY DEF Init
  <1>2. part \in Parts /\ [Next]_vars => (part \in Parts)'
    BY DEF Next, vars
  <1> QED BY <1>1, <1>2, PTL DEF Spec

(* Whichever part runs, its state is one that its code can be in: the      *)
(* tables, calls, files, options and counters that the other properties    *)
(* speak of are what they are taken for.                                   *)
THEOREM Typed == Spec => []TypeOK
  <1> DEFINE Inv == /\ part \in Parts
                    /\ part = "opener" => OpenerInv
                    /\ part = "browsers" => BrowsersInv
                    /\ part = "process" => ProcessInv
                    /\ part = "links" => LinksInv
                    /\ part = "skills" => SkillsInv
                    /\ part = "surface" => SurfaceInv
                    /\ part = "files" => FilesInv
  <1>1. Inv => TypeOK
    <2>1. ASSUME part = "opener", OpenerInv PROVE TypeOK
      BY <2>1 DEF TypeOK, OpenerInv
    <2>2. ASSUME part = "browsers", BrowsersInv PROVE TypeOK
      BY <2>2 DEF TypeOK, BrowsersInv
    <2>3. ASSUME part = "process", ProcessInv PROVE TypeOK
      BY <2>3 DEF TypeOK, ProcessInv
    <2>4. ASSUME part = "links", LinksInv PROVE TypeOK
      BY <2>4 DEF TypeOK, LinksInv
    <2>5. ASSUME part = "skills", SkillsInv PROVE TypeOK
      BY <2>5 DEF TypeOK, SkillsInv, SkillsTyped
    <2>6. ASSUME part = "surface", SurfaceInv PROVE TypeOK
      BY <2>6, SurfaceIsTyped DEF TypeOK
    <2>7. ASSUME part = "files", FilesInv PROVE TypeOK
      BY <2>7 DEF TypeOK, FilesInv, FilesTyped
    <2> QED BY <2>1, <2>2, <2>3, <2>4, <2>5, <2>6, <2>7 DEF Parts
  <1> QED BY <1>1, PartsAre, OpenerKept, BrowsersKept, ProcessKept, LinksKept, SkillsKept, SurfaceKept, FilesKept, PTL
=============================================================================
