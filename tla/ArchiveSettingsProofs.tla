------------------------- MODULE ArchiveSettingsProofs -------------------------
(***************************************************************************)
(* Proofs about ArchiveSettings, for any processes and environments, any   *)
(* runs and participants, and any patches the operators configure.         *)
(***************************************************************************)
EXTENDS ArchiveSettings, TLAPS

-----------------------------------------------------------------------------
(* The settings with something over them.                                  *)

LEMMA OverType ==
  ASSUME NEW s \in Settings, NEW c \in Patches
  PROVE  /\ Over(s, c).participant # None => Over(s, c) \in Settings
         /\ Over(s, c).enabled \in BOOLEAN /\ Over(s, c).run \in Runs \cup {None}
         /\ Over(s, c).participant \in Participants \cup {None}
         /\ Over(s, c).token \in Addresses \cup {None}
  BY DEF Over, Settings, Patches

\* An environment leaves the settings valid.
LEMMA LoadedType ==
  ASSUME TypeOK, NEW p \in Processes
  PROVE  Loaded(p) \in Settings /\ Valid(Loaded(p))
<1>1. file \in Settings /\ Env[p] \in Patches /\ Env[p].participant # None
  BY SettingsAssumption DEF TypeOK, Fields
<1>2. Over(file, Env[p]).participant # None
  BY <1>1, SettingsAssumption DEF Over, Settings
<1> QED
  BY <1>1, <1>2, OverType DEF Loaded, Valid

LEMMA PatchedType ==
  ASSUME TypeOK, NEW p \in Processes, NEW c \in Patches, Valid(Patched(p, c))
  PROVE  Patched(p, c) \in Settings
<1>1. Loaded(p) \in Settings
  BY LoadedType
<1>2. [c EXCEPT !.token = Unset] \in Patches
  BY DEF Patches
<1> QED
  BY <1>1, <1>2, OverType DEF Patched, Valid

LEMMA EmptyTypes == NoPatch \in Patches /\ NoPath \in Addresses /\ Base \in Settings
  BY SettingsAssumption DEF NoPatch, Patches, NoPath, Addresses, Base, Settings

-----------------------------------------------------------------------------
(* The types.                                                              *)

LEMMA TypeInit == Init => TypeOK
  BY EmptyTypes DEF Init, TypeOK

\* A step that ends what one process does.
LEMMA EndsType ==
  ASSUME TypeOK, NEW p \in Processes, file' \in Settings, strayed' \in BOOLEAN,
         pc' = [pc EXCEPT ![p] = "idle"], patch' = [patch EXCEPT ![p] = NoPatch],
         config' = [config EXCEPT ![p] = Base], path' = [path EXCEPT ![p] = NoPath],
         disturbed' \subseteq {q \in Processes : pc[q] # "idle"} \ {p}
  PROVE  /\ TypeOK'
         /\ pc'[p] = "idle"
         /\ \A q \in Processes : q # p =>
              /\ pc'[q] = pc[q] /\ patch'[q] = patch[q]
              /\ config'[q] = config[q] /\ path'[q] = path[q]
<1>1. /\ pc' \in [Processes -> {"idle", "posting", "naming", "saving", "writing",
                                "events", "addressed"}]
      /\ patch' \in [Processes -> Patches]
      /\ config' \in [Processes -> Settings]
      /\ path' \in [Processes -> Addresses]
  BY EmptyTypes DEF TypeOK
<1>2. /\ pc'[p] = "idle" /\ patch'[p] = NoPatch /\ path'[p] = NoPath
      /\ \A q \in Processes : q # p =>
           /\ pc'[q] = pc[q] /\ patch'[q] = patch[q]
           /\ config'[q] = config[q] /\ path'[q] = path[q]
  BY DEF TypeOK
<1>3. disturbed' \subseteq {q \in Processes : pc'[q] # "idle"}
  BY <1>2 DEF TypeOK
<1>4. \A q \in Processes : pc'[q] = "idle" => patch'[q] = NoPatch /\ path'[q] = NoPath
  BY <1>2 DEF TypeOK
<1> QED
  BY <1>1, <1>2, <1>3, <1>4 DEF TypeOK

-----------------------------------------------------------------------------
(* What a process holds agrees with the file until another one writes.     *)

Here(p) == [run |-> Loaded(p).run, participant |-> Loaded(p).participant]

\* The address, the reply and the settings in hand of a process nobody disturbed.
Current(p) ==
  /\ (pc[p] \in {"posting", "naming", "saving", "writing"} /\ Registers(p)) => path[p] = Here(p)
  /\ pc[p] = "addressed" => path[p] = Here(p)
  /\ pc[p] = "events" => path[p].participant = Loaded(p).participant
  /\ pc[p] = "naming" => patch[p].run = Unset /\ patch[p].token \in {None, path[p]}
  /\ (pc[p] \in {"saving", "writing"} /\ Registers(p)) =>
       /\ patch[p].run = Unset /\ patch[p].participant \in Participants
       /\ patch[p].token \in {None, [run |-> path[p].run, participant |-> patch[p].participant]}
  /\ pc[p] = "writing" => config[p] = Patched(p, patch[p])

Sound(p) ==
  /\ pc[p] \in {"posting", "naming", "saving"} => Registers(p)
  /\ p \notin disturbed => Current(p)

SettingsInv == TypeOK /\ (\A p \in Processes : Sound(p)) /\ TokenFitsItsRun

LEMMA SettingsInit == Init => SettingsInv
<1> SUFFICES ASSUME Init PROVE SettingsInv
  OBVIOUS
<1>1. TokenFitsItsRun
  BY DEF Init, TokenFitsItsRun, Fits, Base
<1>2. \A p \in Processes : pc[p] = "idle"
  BY DEF Init
<1> QED
  BY <1>1, <1>2, TypeInit DEF SettingsInv, Sound, Current

LEMMA SoundOther ==
  ASSUME NEW q \in Processes, Sound(q), file' = file,
         pc'[q] = pc[q], patch'[q] = patch[q], config'[q] = config[q], path'[q] = path[q],
         q \in disturbed' <=> q \in disturbed
  PROVE  Sound(q)'
<1>1. Loaded(q)' = Loaded(q)
  BY DEF Loaded, Over
<1>2. Here(q)' = Here(q)
  BY <1>1 DEF Here
<1>3. Patched(q, patch[q])' = Patched(q, patch[q])
  BY <1>1 DEF Patched, Over
<1>4. Registers(q)' <=> Registers(q)
  BY DEF Registers
<1> QED
  BY <1>1, <1>2, <1>3, <1>4 DEF Sound, Current

\* What a step of p leaves of the invariant when it does not write.
LEMMA SettingsHolds ==
  ASSUME SettingsInv, NEW p \in Processes, UNCHANGED <<file, disturbed, strayed>>,
         NEW s \in {"posting", "naming", "saving", "writing", "events", "addressed"},
         pc' = [pc EXCEPT ![p] = s],
         NEW h \in Patches, patch' = [patch EXCEPT ![p] = h],
         NEW c \in Settings, config' = [config EXCEPT ![p] = c],
         NEW a \in Addresses, path' = [path EXCEPT ![p] = a],
         s \in {"posting", "naming", "saving"} => a.run # None,
         p \notin disturbed =>
           /\ (s \in {"posting", "naming", "saving", "writing"} /\ a.run # None) => a = Here(p)
           /\ s = "addressed" => a = Here(p)
           /\ s = "events" => a.participant = Loaded(p).participant
           /\ s = "naming" => h.run = Unset /\ h.token \in {None, a}
           /\ (s \in {"saving", "writing"} /\ a.run # None) =>
                /\ h.run = Unset /\ h.participant \in Participants
                /\ h.token \in {None, [run |-> a.run, participant |-> h.participant]}
           /\ s = "writing" => c = Patched(p, h)
  PROVE  SettingsInv'
<1>0. TypeOK
  BY DEF SettingsInv
<1>1. /\ TypeOK'
      /\ pc'[p] = s /\ patch'[p] = h /\ config'[p] = c /\ path'[p] = a
      /\ \A q \in Processes : q # p =>
           /\ pc'[q] = pc[q] /\ patch'[q] = patch[q]
           /\ config'[q] = config[q] /\ path'[q] = path[q]
  <2>1. /\ pc' \in [Processes -> {"idle", "posting", "naming", "saving", "writing",
                                  "events", "addressed"}]
        /\ patch' \in [Processes -> Patches]
        /\ config' \in [Processes -> Settings]
        /\ path' \in [Processes -> Addresses]
    BY <1>0 DEF TypeOK
  <2>2. pc'[p] = s /\ \A q \in Processes : q # p => pc'[q] = pc[q]
    BY <1>0 DEF TypeOK
  <2>3. patch'[p] = h /\ \A q \in Processes : q # p => patch'[q] = patch[q]
    BY <1>0 DEF TypeOK
  <2>4. config'[p] = c /\ \A q \in Processes : q # p => config'[q] = config[q]
    BY <1>0 DEF TypeOK
  <2>5. path'[p] = a /\ \A q \in Processes : q # p => path'[q] = path[q]
    BY <1>0 DEF TypeOK
  <2>6. disturbed' \subseteq {q \in Processes : pc'[q] # "idle"}
    BY <1>0, <2>2 DEF TypeOK
  <2>7. \A q \in Processes : pc'[q] = "idle" => patch'[q] = NoPatch /\ path'[q] = NoPath
    BY <1>0, <2>2, <2>3, <2>5 DEF TypeOK
  <2>8. file' \in Settings /\ strayed' \in BOOLEAN
    BY <1>0 DEF TypeOK
  <2>9. TypeOK'
    BY <2>1, <2>6, <2>7, <2>8 DEF TypeOK
  <2> QED
    BY <2>2, <2>3, <2>4, <2>5, <2>9
<1>2. Loaded(p)' = Loaded(p)
  BY DEF Loaded, Over
<1>3. Here(p)' = Here(p)
  BY <1>2 DEF Here
<1>4. Patched(p, patch[p])' = Patched(p, h)
  BY <1>1, <1>2 DEF Patched, Over
<1>5. Registers(p)' <=> a.run # None
  BY <1>1 DEF Registers
<1>6. Current(p)' \/ p \in disturbed
  BY <1>1, <1>2, <1>3, <1>4, <1>5 DEF Current
<1>7. Sound(p)'
  BY <1>1, <1>5, <1>6 DEF Sound
<1>8. \A q \in Processes : q # p => Sound(q)'
  BY <1>1, SoundOther DEF SettingsInv
<1>9. TokenFitsItsRun'
  BY DEF SettingsInv, TokenFitsItsRun, Fits
<1> QED
  BY <1>1, <1>7, <1>8, <1>9 DEF SettingsInv

\* A function set to its own value is itself.
LEMMA Same ==
  ASSUME TypeOK, NEW p \in Processes
  PROVE  /\ patch = [patch EXCEPT ![p] = patch[p]] /\ patch[p] \in Patches
         /\ config = [config EXCEPT ![p] = config[p]] /\ config[p] \in Settings
         /\ path = [path EXCEPT ![p] = path[p]] /\ path[p] \in Addresses
  BY DEF TypeOK

LEMMA HereType ==
  ASSUME TypeOK, NEW p \in Processes
  PROVE  Here(p) \in Addresses /\ Loaded(p).participant \in Participants
  BY LoadedType DEF Here, Addresses, Settings

-----------------------------------------------------------------------------
(* The steps that do not write.                                            *)

LEMMA SettingsOfLoad ==
  ASSUME SettingsInv, NEW p \in Processes,
         \/ \E change \in Changes : Configure(p, change)
         \/ Register(p) \/ Name(p) \/ Load(p)
         \/ Address(p) \/ EventsParticipant(p) \/ EventsRun(p)
  PROVE  SettingsInv'
<1>0. TypeOK /\ Sound(p)
  BY DEF SettingsInv
<1>1. PICK h, c, a : h = patch[p] /\ c = config[p] /\ a = path[p]
  OBVIOUS
<1>2. /\ patch = [patch EXCEPT ![p] = h] /\ h \in Patches
      /\ config = [config EXCEPT ![p] = c] /\ c \in Settings
      /\ path = [path EXCEPT ![p] = a] /\ a \in Addresses
  BY <1>0, <1>1, Same
<1>3. pc[p] = "idle" => h = NoPatch /\ a = NoPath
  BY <1>0, <1>1 DEF TypeOK
<1>4. ASSUME NEW change \in Changes, Configure(p, change) PROVE SettingsInv'
  <2>1. PICK d : d = Patched(p, change)
    OBVIOUS
  <2>2. change \in Patches /\ d \in Settings
    BY <1>0, <1>4, <2>1, PatchedType, SettingsAssumption DEF Configure
  <2>3. /\ pc' = [pc EXCEPT ![p] = "writing"] /\ patch' = [patch EXCEPT ![p] = change]
        /\ config' = [config EXCEPT ![p] = d] /\ path' = [path EXCEPT ![p] = a]
        /\ UNCHANGED <<file, disturbed, strayed>> /\ a.run = None
    BY <1>2, <1>3, <1>4, <2>1 DEF Configure, NoPath
  <2> QED
    BY <1>2, <2>1, <2>2, <2>3, SettingsHolds
<1>5. CASE Register(p)
  <2>1. PICK b : b = Here(p)
    OBVIOUS
  <2>2. b \in Addresses /\ b.run # None
    BY <1>0, <1>5, <2>1, HereType DEF Register, Here
  <2>3. /\ pc' = [pc EXCEPT ![p] = "posting"] /\ patch' = [patch EXCEPT ![p] = h]
        /\ config' = [config EXCEPT ![p] = c] /\ path' = [path EXCEPT ![p] = b]
        /\ UNCHANGED <<file, disturbed, strayed>>
    BY <1>2, <1>5, <2>1 DEF Register, Here
  <2> QED
    BY <1>2, <2>1, <2>2, <2>3, SettingsHolds
<1>6. CASE Address(p)
  <2>1. PICK b : b = Here(p)
    OBVIOUS
  <2>2. b \in Addresses
    BY <1>0, <2>1, HereType
  <2>3. /\ pc' = [pc EXCEPT ![p] = "addressed"] /\ patch' = [patch EXCEPT ![p] = h]
        /\ config' = [config EXCEPT ![p] = c] /\ path' = [path EXCEPT ![p] = b]
        /\ UNCHANGED <<file, disturbed, strayed>>
    BY <1>2, <1>6, <2>1 DEF Address, Here
  <2> QED
    BY <1>2, <2>1, <2>2, <2>3, SettingsHolds
<1>7. CASE EventsParticipant(p)
  <2>1. PICK b : b = [a EXCEPT !.participant = Loaded(p).participant]
    OBVIOUS
  <2>2. b \in Addresses /\ b.participant = Loaded(p).participant
    BY <1>0, <1>2, <2>1, HereType DEF Addresses
  <2>3. /\ pc' = [pc EXCEPT ![p] = "events"] /\ patch' = [patch EXCEPT ![p] = h]
        /\ config' = [config EXCEPT ![p] = c] /\ path' = [path EXCEPT ![p] = b]
        /\ UNCHANGED <<file, disturbed, strayed>>
    BY <1>1, <1>2, <1>7, <2>1 DEF EventsParticipant
  <2> QED
    BY <1>2, <2>2, <2>3, SettingsHolds
<1>8. CASE EventsRun(p)
  <2>1. PICK b : b = [a EXCEPT !.run = Loaded(p).run]
    OBVIOUS
  <2>2. /\ b \in Addresses /\ b.run = Loaded(p).run /\ b.participant = a.participant
    BY <1>0, <1>2, <2>1, LoadedType DEF Addresses, Settings
  <2>3. p \notin disturbed => b = Here(p)
    <3>1. p \notin disturbed => a.participant = Loaded(p).participant
      BY <1>0, <1>1, <1>8 DEF EventsRun, Sound, Current
    <3> QED
      BY <2>2, <3>1 DEF Here, Addresses
  <2>4. /\ pc' = [pc EXCEPT ![p] = "addressed"] /\ patch' = [patch EXCEPT ![p] = h]
        /\ config' = [config EXCEPT ![p] = c] /\ path' = [path EXCEPT ![p] = b]
        /\ UNCHANGED <<file, disturbed, strayed>>
    BY <1>1, <1>2, <1>8, <2>1 DEF EventsRun
  <2> QED
    BY <1>2, <2>2, <2>3, <2>4, SettingsHolds
<1>9. CASE Name(p)
  <2>1. PICK g : g = [h EXCEPT !.participant = Loaded(p).participant]
    OBVIOUS
  <2>2. /\ g \in Patches /\ g.run = h.run /\ g.token = h.token
        /\ g.participant = Loaded(p).participant /\ g.participant \in Participants
    BY <1>0, <1>2, <2>1, HereType DEF Patches
  <2>3. /\ pc' = [pc EXCEPT ![p] = "saving"] /\ patch' = [patch EXCEPT ![p] = g]
        /\ config' = [config EXCEPT ![p] = c] /\ path' = [path EXCEPT ![p] = a]
        /\ UNCHANGED <<file, disturbed, strayed>> /\ pc[p] = "naming"
    BY <1>1, <1>2, <1>9, <2>1 DEF Name
  <2>4. a.run # None
    BY <1>0, <1>1, <2>3 DEF Sound, Registers
  <2>5. p \notin disturbed => a = Here(p) /\ h.run = Unset /\ h.token \in {None, a}
    BY <1>0, <1>1, <2>3, <2>4 DEF Sound, Current, Registers
  <2>6. a = Here(p) => a = [run |-> a.run, participant |-> g.participant]
    BY <2>2 DEF Here
  <2> QED
    BY <1>2, <2>2, <2>3, <2>4, <2>5, <2>6, SettingsHolds
<1>10. CASE Load(p)
  <2>1. PICK d : d = Patched(p, h)
    OBVIOUS
  <2>2. d \in Settings
    BY <1>0, <1>1, <1>2, <1>10, <2>1, PatchedType DEF Load
  <2>3. /\ pc' = [pc EXCEPT ![p] = "writing"] /\ patch' = [patch EXCEPT ![p] = h]
        /\ config' = [config EXCEPT ![p] = d] /\ path' = [path EXCEPT ![p] = a]
        /\ UNCHANGED <<file, disturbed, strayed>> /\ pc[p] = "saving"
    BY <1>1, <1>2, <1>10, <2>1 DEF Load
  <2>4. (p \notin disturbed /\ a.run # None) =>
          /\ a = Here(p) /\ h.run = Unset /\ h.participant \in Participants
          /\ h.token \in {None, [run |-> a.run, participant |-> h.participant]}
    BY <1>0, <1>1, <2>3 DEF Sound, Current, Registers
  <2> QED
    BY <1>2, <2>1, <2>2, <2>3, <2>4, SettingsHolds
<1> QED
  BY <1>4, <1>5, <1>6, <1>7, <1>8, <1>9, <1>10

LEMMA SettingsOfReply ==
  ASSUME SettingsInv, NEW p \in Processes, NEW name \in Participants \cup {None},
         NEW issued \in BOOLEAN, Reply(p, name, issued)
  PROVE  SettingsInv'
<1>0. TypeOK /\ Sound(p) /\ pc[p] = "posting"
  BY DEF SettingsInv, Reply
<1>1. PICK c, a : c = config[p] /\ a = path[p]
  OBVIOUS
<1>2. /\ config = [config EXCEPT ![p] = c] /\ c \in Settings
      /\ path = [path EXCEPT ![p] = a] /\ a \in Addresses
  BY <1>0, <1>1, Same
<1>3. PICK t : t = IF ~issued THEN None ELSE IF name = None THEN a
                   ELSE [a EXCEPT !.participant = name]
  OBVIOUS
<1>4. /\ t \in Addresses \cup {None}
      /\ name = None => t \in {None, a}
      /\ name # None => t \in {None, [run |-> a.run, participant |-> name]}
  BY <1>2, <1>3 DEF Addresses
<1>5. PICK h : h = [enabled |-> TRUE, run |-> Unset, participant |-> name, token |-> t]
  OBVIOUS
<1>6. /\ h \in Patches /\ h.run = Unset /\ h.participant = name /\ h.token = t
  BY <1>4, <1>5 DEF Patches
<1>7. PICK s : s = IF name = None THEN "naming" ELSE "saving"
  OBVIOUS
<1>8. /\ pc' = [pc EXCEPT ![p] = s] /\ patch' = [patch EXCEPT ![p] = h]
      /\ config' = [config EXCEPT ![p] = c] /\ path' = [path EXCEPT ![p] = a]
      /\ UNCHANGED <<file, disturbed, strayed>>
  BY <1>1, <1>2, <1>3, <1>5, <1>7 DEF Reply
<1>9. a.run # None /\ (p \notin disturbed => a = Here(p))
  BY <1>0, <1>1 DEF Sound, Current, Registers
<1>10. s \in {"naming", "saving"} /\ (s = "saving" => name # None) /\ (s = "naming" => name = None)
  BY <1>7
<1> QED
  BY <1>2, <1>4, <1>6, <1>8, <1>9, <1>10, SettingsHolds

LEMMA SettingsOfIdle ==
  ASSUME SettingsInv, NEW p \in Processes, GiveUp(p) \/ Send(p)
  PROVE  SettingsInv'
<1>0. TypeOK /\ Idle(p) /\ UNCHANGED <<file, strayed>>
  BY DEF SettingsInv, GiveUp, Send
<1>1. disturbed' \subseteq {q \in Processes : pc[q] # "idle"} \ {p}
  BY <1>0 DEF Idle, TypeOK
<1>2. file' \in Settings /\ strayed' \in BOOLEAN
  BY <1>0 DEF TypeOK
<1>3. /\ TypeOK' /\ pc'[p] = "idle"
      /\ \A q \in Processes : q # p =>
           /\ pc'[q] = pc[q] /\ patch'[q] = patch[q]
           /\ config'[q] = config[q] /\ path'[q] = path[q]
  BY <1>0, <1>1, <1>2, EndsType DEF Idle
<1>4. Sound(p)'
  BY <1>3 DEF Sound, Current
<1>5. \A q \in Processes : q # p => Sound(q)'
  BY <1>0, <1>3, SoundOther DEF SettingsInv, Idle
<1>6. TokenFitsItsRun'
  BY <1>0 DEF SettingsInv, TokenFitsItsRun, Fits
<1> QED
  BY <1>3, <1>4, <1>5, <1>6 DEF SettingsInv

-----------------------------------------------------------------------------
(* The write.                                                              *)

LEMMA PatchedFields ==
  ASSUME NEW p \in Processes, NEW h \in Patches
  PROVE  /\ h.enabled = Unset => Patched(p, h).enabled = Loaded(p).enabled
         /\ h.run = Unset => Patched(p, h).run = Loaded(p).run
         /\ h.participant = Unset => Patched(p, h).participant = Loaded(p).participant
         /\ h.token \in {Unset, None} => Patched(p, h).token = Loaded(p).token
         /\ h.participant # Unset => Patched(p, h).participant = h.participant
         /\ h.token \notin {Unset, None} => Patched(p, h).token = h.token
<1>1. [h EXCEPT !.token = Unset] =
        [enabled |-> h.enabled, run |-> h.run, participant |-> h.participant, token |-> Unset]
  BY DEF Patches
<1>2. CASE h.token = None
  BY <1>1, <1>2, SettingsAssumption DEF Patched, Over
<1>3. CASE h.token # None
  BY <1>3 DEF Patched, Over
<1> QED
  BY <1>2, <1>3

LEMMA LoadedFields ==
  ASSUME NEW p \in Processes
  PROVE  /\ Env[p].enabled = Unset => Loaded(p).enabled = file.enabled
         /\ Env[p].run = Unset => Loaded(p).run = file.run
         /\ Env[p].participant = Unset => Loaded(p).participant = file.participant
         /\ Env[p].token = Unset => Loaded(p).token = file.token
         /\ Env[p].enabled # Unset => Loaded(p).enabled = Env[p].enabled
         /\ Env[p].run # Unset => Loaded(p).run = Env[p].run
         /\ Env[p].participant # Unset => Loaded(p).participant = Env[p].participant
         /\ Env[p].token # Unset => Loaded(p).token = Env[p].token
  BY DEF Loaded, Over

\* An undisturbed registration that brings a token writes one that fits.
LEMMA RegistrationFits ==
  ASSUME SettingsInv, NEW p \in Processes, pc[p] = "writing", p \notin disturbed,
         Registers(p), patch[p].token # None
  PROVE  Fits(config[p])
<1>1. TypeOK /\ Current(p)
  BY DEF SettingsInv, Sound
<1>2. patch[p] \in Patches
  BY <1>1 DEF TypeOK
<1>3. /\ config[p] = Patched(p, patch[p]) /\ path[p] = Here(p)
      /\ patch[p].run = Unset /\ patch[p].participant \in Participants
      /\ patch[p].token = [run |-> path[p].run, participant |-> patch[p].participant]
  BY <1>1 DEF Current
<1>4. patch[p].participant # Unset
  BY <1>3, SettingsAssumption
<1>5. patch[p].token # Unset
  <2>1. patch[p].token \in Addresses
    BY <1>1, <1>3 DEF TypeOK, Addresses
  <2> QED
    BY <2>1, SettingsAssumption
<1>6. /\ config[p].run = Loaded(p).run /\ config[p].participant = patch[p].participant
      /\ config[p].token = patch[p].token
  BY <1>2, <1>3, <1>4, <1>5, PatchedFields
<1> QED
  BY <1>3, <1>6 DEF Fits, Here

\* A save that touches neither run, participant nor token keeps a token fitting.
LEMMA SaveFits ==
  ASSUME SettingsInv, NEW p \in Processes, pc[p] = "writing", p \notin disturbed,
         Fits(file), ~Overridden(p),
         \A f \in {"run", "participant", "token"} : patch[p][f] = Unset
  PROVE  Fits(config[p])
<1>1. TypeOK /\ Current(p)
  BY DEF SettingsInv, Sound
<1>2. patch[p] \in Patches
  BY <1>1 DEF TypeOK
<1>3. config[p] = Patched(p, patch[p])
  BY <1>1 DEF Current
<1>4. /\ config[p].run = Loaded(p).run /\ config[p].participant = Loaded(p).participant
      /\ config[p].token = Loaded(p).token
  BY <1>2, <1>3, PatchedFields
<1>5. /\ Loaded(p).run = file.run /\ Loaded(p).participant = file.participant
      /\ Loaded(p).token = file.token
  BY LoadedFields DEF Overridden
<1> QED
  BY <1>4, <1>5 DEF Fits

LEMMA SettingsOfWrite ==
  ASSUME SettingsInv, NEW p \in Processes, Write(p)
  PROVE  SettingsInv'
<1>0. TypeOK /\ pc[p] = "writing" /\ config[p] \in Settings
  BY DEF SettingsInv, Write, TypeOK
<1>1. disturbed' = {q \in Processes : pc[q] # "idle"} \ {p} /\ file' = config[p]
  BY DEF Write
<1>2. strayed' \in BOOLEAN
  BY DEF Write, MayStray, Fits, SettingsInv, TypeOK, Registers
<1>3. /\ TypeOK' /\ pc'[p] = "idle"
      /\ \A q \in Processes : q # p =>
           /\ pc'[q] = pc[q] /\ patch'[q] = patch[q]
           /\ config'[q] = config[q] /\ path'[q] = path[q]
  BY <1>0, <1>1, <1>2, EndsType DEF Write
<1>4. ASSUME NEW q \in Processes PROVE Sound(q)'
  <2>1. CASE pc'[q] = "idle"
    BY <2>1 DEF Sound, Current
  <2>2. CASE pc'[q] # "idle"
    <3>1. q # p /\ q \in disturbed'
      BY <1>1, <1>3, <2>2
    <3> QED
      BY <1>3, <3>1 DEF SettingsInv, Sound, Registers
  <2> QED
    BY <2>1, <2>2
<1>5. TokenFitsItsRun'
  <2>1. CASE Fits(config[p])
    BY <1>1, <2>1 DEF TokenFitsItsRun, Fits
  <2>2. CASE ~Fits(config[p])
    <3>1. CASE Registers(p) /\ patch[p].token # None
      <4>1. p \in disturbed
        BY <1>0, <2>2, <3>1, RegistrationFits
      <4> QED
        BY <2>2, <3>1, <4>1 DEF Write, MayStray, TokenFitsItsRun
    <3>2. CASE Fits(file) /\ ~(Registers(p) /\ patch[p].token # None)
      <4>1. MayStray(p)
        BY <1>0, <2>2, <3>2, SaveFits DEF MayStray
      <4> QED
        BY <2>2, <3>2, <4>1 DEF Write, TokenFitsItsRun
    <3>3. CASE ~Fits(file) /\ ~(Registers(p) /\ patch[p].token # None)
      <4>1. strayed
        BY <3>3 DEF SettingsInv, TokenFitsItsRun
      <4> QED
        BY <2>2, <3>3, <4>1 DEF Write, TokenFitsItsRun
    <3> QED
      BY <3>1, <3>2, <3>3
  <2> QED
    BY <2>1, <2>2
<1> QED
  BY <1>3, <1>4, <1>5 DEF SettingsInv

LEMMA SettingsStep == SettingsInv /\ [Next]_vars => SettingsInv'
<1> SUFFICES ASSUME SettingsInv, [Next]_vars PROVE SettingsInv'
  OBVIOUS
<1>1. CASE UNCHANGED vars
  <2>1. TypeOK' /\ TokenFitsItsRun'
    BY <1>1 DEF vars, SettingsInv, TypeOK, TokenFitsItsRun, Fits
  <2>2. \A p \in Processes : Sound(p)'
    BY <1>1, SoundOther DEF vars, SettingsInv
  <2> QED
    BY <2>1, <2>2 DEF SettingsInv
<1>2. ASSUME NEW p \in Processes, Step(p) PROVE SettingsInv'
  <2>1. CASE \E name \in Participants \cup {None}, issued \in BOOLEAN : Reply(p, name, issued)
    BY <2>1, SettingsOfReply
  <2>2. CASE Write(p)
    BY <2>2, SettingsOfWrite
  <2>3. CASE GiveUp(p) \/ Send(p)
    BY <2>3, SettingsOfIdle
  <2>4. CASE \/ \E change \in Changes : Configure(p, change)
             \/ Register(p) \/ Name(p) \/ Load(p)
             \/ Address(p) \/ EventsParticipant(p) \/ EventsRun(p)
    BY <2>4, SettingsOfLoad
  <2> QED
    BY <1>2, <2>1, <2>2, <2>3, <2>4 DEF Step
<1> QED
  BY <1>1, <1>2 DEF Next

-----------------------------------------------------------------------------
(* The theorems.                                                           *)

\* Settings stay valid, in the file and in hand.
THEOREM SettingsTyped == Spec => []TypeOK
<1>1. SettingsInv => TypeOK
  BY DEF SettingsInv
<1> QED
  BY <1>1, SettingsInit, SettingsStep, PTL DEF Spec

\* A token in the file that is not the one of its run and participant has a known
\* cause, for any processes, environments and patches.
THEOREM TokensFit == Spec => []TokenFitsItsRun
<1>1. SettingsInv => TokenFitsItsRun
  BY DEF SettingsInv
<1> QED
  BY <1>1, SettingsInit, SettingsStep, PTL DEF Spec

\* So has a token that Archive refuses.
THEOREM RefusalsExplained == Spec => []RefusedRequestsExplained
<1>1. SettingsInv => RefusedRequestsExplained
  <2> SUFFICES ASSUME SettingsInv, NEW p \in Processes, pc[p] = "addressed",
                      Loaded(p).token \notin {None, path[p]},
                      ~strayed, p \notin disturbed, ~Overridden(p)
               PROVE  FALSE
    BY DEF RefusedRequestsExplained
  <2>1. path[p] = Here(p)
    BY DEF SettingsInv, Sound, Current
  <2>2. Fits(file)
    BY DEF SettingsInv, TokenFitsItsRun
  <2>3. /\ Loaded(p).run = file.run /\ Loaded(p).participant = file.participant
        /\ Loaded(p).token = file.token
    BY LoadedFields DEF Overridden
  <2> QED
    BY <2>1, <2>2, <2>3 DEF Here, Fits
<1> QED
  BY <1>1, SettingsInit, SettingsStep, PTL DEF Spec

\* An undisturbed save changes what it was asked to change, and nothing else but
\* to the values of its environment.
THEOREM UntouchedStay == Spec => UntouchedSettingsStay
<1> DEFINE Kept(p) == (Write(p) /\ p \notin disturbed) =>
             \A f \in Fields : file'[f] # file[f] =>
               patch[p][f] # Unset \/ (Env[p][f] # Unset /\ file'[f] = Env[p][f])
<1>1. ASSUME SettingsInv, NEW p \in Processes PROVE Kept(p)
  <2> SUFFICES ASSUME Write(p), p \notin disturbed, NEW f \in Fields,
                      file'[f] # file[f], patch[p][f] = Unset
               PROVE  Env[p][f] # Unset /\ file'[f] = Env[p][f]
    OBVIOUS
  <2>1. file' = Patched(p, patch[p]) /\ patch[p] \in Patches
    BY <1>1 DEF SettingsInv, Sound, Current, Write, TypeOK
  <2>2. file'[f] = Loaded(p)[f]
    BY <2>1, PatchedFields DEF Fields
  <2> QED
    BY <2>2, LoadedFields DEF Fields
<1>2. SettingsInv => \A p \in Processes : Kept(p)
  BY <1>1
<1> QED
  BY <1>2, SettingsInit, SettingsStep, PTL DEF Spec, UntouchedSettingsStay

=============================================================================
