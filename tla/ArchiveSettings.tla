---------------------------- MODULE ArchiveSettings ----------------------------
(***************************************************************************)
(* The settings of Archive's General API: a file that several processes    *)
(* load, change and replace (the general-api commands, and a backend with  *)
(* the settings router), each under the environment it was started in.     *)
(* save reads the file, applies a patch and replaces it at once, without a *)
(* lock; a registration loads the settings up to four times and talks to   *)
(* Archive in between; a request loads them once for its path and again    *)
(* for its token.                                                          *)
(*                                                                         *)
(* Of the settings, the run, the participant and the token are modelled,   *)
(* and enabled, which stands for those that only have to be kept.  Archive *)
(* is external: a token is the run and participant it was issued for.      *)
(***************************************************************************)
EXTENDS FiniteSets

CONSTANTS
  Processes,
  Runs,
  Participants,
  DefaultParticipant,  \* the bot's ID
  Env,                 \* the environment of each process, Unset where it is silent
  Changes,             \* the patches the operators configure
  None,                \* an empty string
  Unset                \* a setting that a patch or an environment leaves alone

VARIABLES
  file,       \* the settings file; a missing one reads as Base
  pc,         \* what each process is doing
  patch,      \* the changes a process is saving
  config,     \* the settings it is about to write
  path,       \* the run and participant of its registration or request
  disturbed,  \* the processes during whose operation another one wrote (history)
  strayed     \* the token in the file has a known cause not to fit (history)

vars == <<file, pc, patch, config, path, disturbed, strayed>>

Fields == {"enabled", "run", "participant", "token"}

Addresses == [run : Runs \cup {None}, participant : Participants]

Settings == [enabled : BOOLEAN, run : Runs \cup {None}, participant : Participants,
             token : Addresses \cup {None}]

\* What is laid over the settings: Unset leaves a field alone.
Patches == [enabled : BOOLEAN \cup {Unset}, run : Runs \cup {None, Unset},
            participant : Participants \cup {None, Unset},
            token : Addresses \cup {None, Unset}]

\* An empty variable of the environment is none.
ASSUME SettingsAssumption ==
  /\ DefaultParticipant \in Participants
  /\ None \notin Runs \cup Participants \cup Addresses
  /\ Unset \notin Runs \cup Participants \cup Addresses \cup BOOLEAN \cup {None}
  /\ \A p \in Processes : Env[p] \in Patches /\ \A f \in Fields : Env[p][f] # None
  /\ Changes \subseteq Patches

Base == [enabled |-> FALSE, run |-> None, participant |-> DefaultParticipant, token |-> None]

NoPatch == [enabled |-> Unset, run |-> Unset, participant |-> Unset, token |-> Unset]

NoPath == [run |-> None, participant |-> DefaultParticipant]

Init ==
  /\ file = Base
  /\ pc = [p \in Processes |-> "idle"]
  /\ patch = [p \in Processes |-> NoPatch]
  /\ config = [p \in Processes |-> Base]
  /\ path = [p \in Processes |-> NoPath]
  /\ disturbed = {}
  /\ strayed = FALSE

-----------------------------------------------------------------------------
(* Loading and validating.                                                 *)

Over(s, changes) ==
  [enabled     |-> IF changes.enabled = Unset THEN s.enabled ELSE changes.enabled,
   run         |-> IF changes.run = Unset THEN s.run ELSE changes.run,
   participant |-> IF changes.participant = Unset THEN s.participant
                   ELSE changes.participant,
   token       |-> IF changes.token = Unset THEN s.token ELSE changes.token]

\* load: the file under the environment of the process.
Loaded(p) == Over(file, Env[p])

\* Mutant: nothing is validated.
ValidAlways(s) == TRUE

Valid(s) == s.participant # None

\* Mutant: the settings that are not in the patch return to their defaults.
PatchedBase(p, changes) == Over(Over(Base, Env[p]), changes)

\* The settings with a patch on them; an empty token in it is dropped.
Patched(p, changes) ==
  Over(Loaded(p), IF changes.token = None THEN [changes EXCEPT !.token = Unset]
                  ELSE changes)

Idle(p) ==
  /\ pc' = [pc EXCEPT ![p] = "idle"]
  /\ patch' = [patch EXCEPT ![p] = NoPatch]
  /\ config' = [config EXCEPT ![p] = Base]
  /\ path' = [path EXCEPT ![p] = NoPath]
  /\ disturbed' = disturbed \ {p}

-----------------------------------------------------------------------------
(* Saving.                                                                 *)

\* The configure command and the settings route.
Configure(p, change) ==
  /\ pc[p] = "idle"
  /\ Valid(Patched(p, change))
  /\ pc' = [pc EXCEPT ![p] = "writing"]
  /\ patch' = [patch EXCEPT ![p] = change]
  /\ config' = [config EXCEPT ![p] = Patched(p, change)]
  /\ UNCHANGED <<file, path, disturbed, strayed>>

\* register: a participant for the run.
Register(p) ==
  /\ pc[p] = "idle"
  /\ Loaded(p).run # None
  /\ pc' = [pc EXCEPT ![p] = "posting"]
  /\ path' = [path EXCEPT ![p] = [run |-> Loaded(p).run,
                                  participant |-> Loaded(p).participant]]
  /\ UNCHANGED <<file, patch, config, disturbed, strayed>>

\* Mutant: the participant that Archive names is not taken over.
ReplyOwnName(p, name, issued) ==
  /\ pc[p] = "posting"
  /\ pc' = [pc EXCEPT ![p] = "saving"]
  /\ patch' = [patch EXCEPT ![p] =
       [enabled |-> TRUE, run |-> Unset, participant |-> path[p].participant,
        token |-> IF ~issued THEN None
                  ELSE IF name = None THEN path[p]
                  ELSE [path[p] EXCEPT !.participant = name]]]
  /\ UNCHANGED <<file, config, path, disturbed, strayed>>

\* Archive registers the participant it was asked for or one of another name,
\* which its reply need not repeat, and issues a token or none.
Reply(p, name, issued) ==
  /\ pc[p] = "posting"
  /\ pc' = [pc EXCEPT ![p] = IF name = None THEN "naming" ELSE "saving"]
  /\ patch' = [patch EXCEPT ![p] =
       [enabled |-> TRUE, run |-> Unset, participant |-> name,
        token |-> IF ~issued THEN None
                  ELSE IF name = None THEN path[p]
                  ELSE [path[p] EXCEPT !.participant = name]]]
  /\ UNCHANGED <<file, config, path, disturbed, strayed>>

\* A reply without a participant: that of the settings, loaded again.
Name(p) ==
  /\ pc[p] = "naming"
  /\ pc' = [pc EXCEPT ![p] = "saving"]
  /\ patch' = [patch EXCEPT ![p].participant = Loaded(p).participant]
  /\ UNCHANGED <<file, config, path, disturbed, strayed>>

\* save_registration: the settings are loaded once more, to be patched.
Load(p) ==
  /\ pc[p] = "saving"
  /\ Valid(Patched(p, patch[p]))
  /\ pc' = [pc EXCEPT ![p] = "writing"]
  /\ config' = [config EXCEPT ![p] = Patched(p, patch[p])]
  /\ UNCHANGED <<file, patch, path, disturbed, strayed>>

\* The token is that of the run and participant, if there is one.
Fits(s) == s.token # None => s.token = [run |-> s.run, participant |-> s.participant]

Registers(p) == path[p].run # None

Overridden(p) == \E f \in {"run", "participant", "token"} : Env[p][f] # Unset

\* What may leave a token in the file that does not fit.
MayStray(p) ==
  \/ p \in disturbed
  \/ IF Registers(p) THEN patch[p].token = None
     ELSE Overridden(p) \/ \E f \in {"run", "participant", "token"} : patch[p][f] # Unset

\* os.replace: the file has the new settings at once.
Write(p) ==
  /\ pc[p] = "writing"
  /\ file' = config[p]
  /\ pc' = [pc EXCEPT ![p] = "idle"]
  /\ patch' = [patch EXCEPT ![p] = NoPatch]
  /\ config' = [config EXCEPT ![p] = Base]
  /\ path' = [path EXCEPT ![p] = NoPath]
  /\ disturbed' = {q \in Processes : pc[q] # "idle"} \ {p}
  /\ strayed' = /\ ~Fits(config[p])
                /\ IF Fits(file) \/ (Registers(p) /\ patch[p].token # None) THEN MayStray(p)
                   ELSE strayed

\* Any step fails, or the process is killed: nothing is left but a temporary file.
GiveUp(p) ==
  /\ pc[p] # "idle"
  /\ Idle(p)
  /\ UNCHANGED <<file, strayed>>

-----------------------------------------------------------------------------
(* Requests.                                                               *)

\* _participant_path: account, orders, market and directives.
Address(p) ==
  /\ pc[p] = "idle"
  /\ Loaded(p).run # None
  /\ pc' = [pc EXCEPT ![p] = "addressed"]
  /\ path' = [path EXCEPT ![p] = [run |-> Loaded(p).run,
                                  participant |-> Loaded(p).participant]]
  /\ UNCHANGED <<file, patch, config, disturbed, strayed>>

\* events loads the participant and the run one after the other, and asks for
\* the events of an empty run too.
EventsParticipant(p) ==
  /\ pc[p] = "idle"
  /\ pc' = [pc EXCEPT ![p] = "events"]
  /\ path' = [path EXCEPT ![p].participant = Loaded(p).participant]
  /\ UNCHANGED <<file, patch, config, disturbed, strayed>>

\* Mutant: the run is not loaded.
EventsWithoutRun(p) ==
  /\ pc[p] = "events"
  /\ pc' = [pc EXCEPT ![p] = "addressed"]
  /\ path' = [path EXCEPT ![p].run = None]
  /\ UNCHANGED <<file, patch, config, disturbed, strayed>>

EventsRun(p) ==
  /\ pc[p] = "events"
  /\ pc' = [pc EXCEPT ![p] = "addressed"]
  /\ path' = [path EXCEPT ![p].run = Loaded(p).run]
  /\ UNCHANGED <<file, patch, config, disturbed, strayed>>

\* _request: without a token it raises; otherwise the request goes to Archive,
\* which refuses a token of another run or participant.
Send(p) ==
  /\ pc[p] = "addressed"
  /\ Idle(p)
  /\ UNCHANGED <<file, strayed>>

Step(p) ==
  \/ \E change \in Changes : Configure(p, change)
  \/ \E name \in Participants \cup {None}, issued \in BOOLEAN : Reply(p, name, issued)
  \/ Register(p) \/ Name(p) \/ Load(p) \/ Write(p) \/ GiveUp(p)
  \/ Address(p) \/ EventsParticipant(p) \/ EventsRun(p) \/ Send(p)

Next == \E p \in Processes : Step(p)

Spec == Init /\ [][Next]_vars

-----------------------------------------------------------------------------
\* The settings in the file and in hand are valid, and a process that is idle
\* holds nothing.
TypeOK ==
  /\ file \in Settings
  /\ pc \in [Processes -> {"idle", "posting", "naming", "saving", "writing",
                           "events", "addressed"}]
  /\ patch \in [Processes -> Patches]
  /\ config \in [Processes -> Settings]
  /\ path \in [Processes -> Addresses]
  /\ disturbed \subseteq {p \in Processes : pc[p] # "idle"}
  /\ strayed \in BOOLEAN
  /\ \A p \in Processes : pc[p] = "idle" => patch[p] = NoPatch /\ path[p] = NoPath

\* A token in the file is the one of its run and participant: a registration
\* stores them together, and other saves keep them so, unless one of them was
\* patched by hand, the saving process has it in its environment, the
\* registration brought no token, or the settings were replaced meanwhile.
TokenFitsItsRun == Fits(file) \/ strayed

\* Archive can refuse the token of a request only when the token did not fit in the
\* file already, the settings were replaced between the loads of the request, or
\* the environment of the process overrides one of the three.
RefusedRequestsExplained ==
  \A p \in Processes :
     (pc[p] = "addressed" /\ Loaded(p).token \notin {None, path[p]}) =>
        strayed \/ p \in disturbed \/ Overridden(p)

\* A save changes a setting only as patched, or to the value in its environment,
\* unless another save came in between.
UntouchedSettingsStay ==
  [][\A p \in Processes : (Write(p) /\ p \notin disturbed) =>
       \A f \in Fields : file'[f] # file[f] =>
         patch[p][f] # Unset \/ (Env[p][f] # Unset /\ file'[f] = Env[p][f])]_vars
=============================================================================
