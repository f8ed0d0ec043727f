------------------------------ MODULE Scoring -------------------------------
(***************************************************************************)
(* The citizen risk score: POST /internal/risk-score, /egov/risk-score,    *)
(* the scoring half of /internal/partners/features/build, and member       *)
(* authentication.  Requests run in threads of one server process.  The    *)
(* models live in a registry that the first request to need it builds from *)
(* the artifact files, without a lock, training and writing what is        *)
(* missing where that is allowed; an offline script writes the same files. *)
(* Files are written in place: a reader may meet half of one.              *)
(***************************************************************************)
EXTENDS CitizenRules, Sequences

CONSTANTS
  SEGMENTS,      \* the segments, in the order they are loaded
  Settings,      \* the configurations a deployment may have
  Requests,      \* what callers ask
  Calls,         \* threads of the server
  Probabilities, \* what a model may answer, in hundredths
  Margin,        \* CITIZEN_RISK_MIN_CONFIDENCE_MARGIN, in hundredths
  Nobody,        \* no segment is being trained offline
  NoRequest, NoAnswer, NoRegistry,
  MaxTrainings,  \* bound: runs of the offline trainer, per segment file
  MaxFaults      \* bound: exceptions and restarts

Segments == { SEGMENTS[i] : i \in DOMAIN SEGMENTS }

Features == [late : Nat, overdue : Nat, service : Nat, location : Nat,
             compliance : Nat, pins : Nat, swap : BOOLEAN]

ASSUME SettingsAssumption ==
  \A s \in Settings :
    /\ {s.production, s.training, s.developmentOnly, s.otherChecks} \subseteq BOOLEAN
    /\ DOMAIN s.rollout \subseteq STRING /\ "DEFAULT" \in DOMAIN s.rollout

ASSUME ParameterAssumption ==
  /\ SEGMENTS \in Seq(STRING) /\ "DEFAULT" \in Segments /\ Len(SEGMENTS) > 0
  /\ Requests \subseteq [kind : {"score", "member"}, org : STRING, features : Features]
  /\ Probabilities \subseteq 0..100 /\ Margin \in Nat
  /\ {MaxTrainings, MaxFaults} \subseteq Nat
  /\ Calls \cap {"missing", "whole", "torn", "trainer"} = {}
  /\ Nobody \notin Segments /\ NoRequest \notin Requests

VARIABLES
  settings,   \* the configuration
  disk,       \* the artifact files: missing, whole, torn, or whoever writes it
  trainer,    \* the segment the offline trainer is writing
  registry,   \* the process's _REGISTRY
  call,       \* each thread and its locals
  absent,     \* history: files that were missing when the process started
  trainings, faults

vars == <<settings, disk, trainer, registry, call, absent, trainings, faults>>

NoModels   == [s \in Segments |-> "none"]
ModelKinds == {"none", "loaded", "trained"}
Models     == [Segments -> ModelKinds]
Answers    == [score : 0..100, level : Levels, source : Sources, reason : Reasons,
               mode : Modes, ml : Probabilities \cup {NoMl}]

ASSUME AnswerAssumption == NoAnswer \notin Answers

\* A thread: where it is, what it was asked, the rollout mode, the registry it
\* is building and for which caller, the answer, the model that was asked for it
\* and the row it has committed.
Thread ==
  [pc : {"idle", "gate", "load", "train", "save", "try", "persist", "reply", "error"},
   request : Requests \cup {NoRequest}, mode : Modes, back : {"gate", "try"},
   own : Models, next : Nat \ {0}, answer : Answers \cup {NoAnswer},
   model : ModelKinds, row : Answers \cup {NoAnswer}]

Idle == [pc |-> "idle", request |-> NoRequest, mode |-> "SHADOW", back |-> "try",
         own |-> NoModels, next |-> 1, answer |-> NoAnswer, model |-> "none",
         row |-> NoAnswer]

TypeOK ==
  /\ settings \in Settings
  /\ disk \in [Segments -> {"missing", "whole", "torn", "trainer"} \cup Calls]
  /\ trainer \in Segments \cup {Nobody}
  /\ registry \in Models \cup {NoRegistry}
  /\ call \in [Calls -> Thread]
  /\ absent \subseteq Segments
  /\ trainings \in Nat /\ faults \in Nat

\* The process starts only if every check of validate_for_environment holds.
Starts(s) == s.production => ~s.training /\ s.otherChecks

Missing == { s \in Segments : disk[s] = "missing" }

Init ==
  /\ settings \in Settings /\ Starts(settings)
  /\ disk \in [Segments -> {"missing", "whole"}]
  /\ trainer = Nobody
  /\ registry = NoRegistry
  /\ call = [c \in Calls |-> Idle]
  /\ absent = Missing
  /\ trainings = 0 /\ faults = 0

-----------------------------------------------------------------------------
(* Configuration.                                                           *)

RolloutFor(org) ==
  LET key == IF org \in DOMAIN settings.rollout THEN org ELSE "DEFAULT"
  IN IF settings.rollout[key] \in Modes THEN settings.rollout[key] ELSE "SHADOW"

\* Mutant: the environment is not asked.
MayTrainAnywhere == TRUE

MayTrain == ~settings.production /\ settings.training

SegmentOf(org) == IF org \in {"BANK", "POLICE", "COURT"} THEN org ELSE "DEFAULT"

ASSUME SegmentAssumption == \A r \in Requests : SegmentOf(r.org) \in Segments

-----------------------------------------------------------------------------
(* Threads.                                                                 *)

Become(c, t) == call' = [call EXCEPT ![c] = t]

fixed  == <<settings, absent, trainings, faults>>
others == <<fixed, disk, trainer>>

Ask(c, r) ==
  /\ call[c].pc = "idle"
  /\ LET mode == RolloutFor(r.org) IN
     Become(c, [Idle EXCEPT
       !.pc = IF settings.production /\ mode = "ML_ASSISTED" THEN "gate" ELSE "try",
       !.request = r, !.mode = mode])
  /\ UNCHANGED <<others, registry>>

\* get_registry finds no registry and begins one of its own.
OpenRegistry(c) ==
  /\ call[c].pc \in {"gate", "try"}
  /\ registry = NoRegistry
  /\ Become(c, [call[c] EXCEPT !.pc = "load", !.back = call[c].pc,
                               !.own = NoModels, !.next = 1])
  /\ UNCHANGED <<others, registry>>

Loading(c) == call[c].pc = "load" /\ call[c].next <= Len(SEGMENTS)

Current(c) == SEGMENTS[call[c].next]

Keep(c, how) == [call[c] EXCEPT !.pc = "load", !.own[Current(c)] = how,
                                !.next = call[c].next + 1]

LoadSegment(c) ==
  /\ Loading(c)
  /\ disk[Current(c)] = "whole"
  /\ Become(c, Keep(c, "loaded"))
  /\ UNCHANGED <<others, registry>>

\* Mutant: what cannot be loaded is left out.
SkipSegmentUnreadable(c) ==
  /\ Loading(c)
  /\ disk[Current(c)] # "whole"
  /\ ~MayTrain
  /\ Become(c, Keep(c, "none"))
  /\ UNCHANGED <<others, registry>>

SkipSegment(c) ==
  /\ Loading(c)
  /\ disk[Current(c)] = "missing"
  /\ ~MayTrain
  /\ Become(c, Keep(c, "none"))
  /\ UNCHANGED <<others, registry>>

TrainSegment(c) ==
  /\ Loading(c)
  /\ disk[Current(c)] = "missing"
  /\ MayTrain
  /\ Become(c, [call[c] EXCEPT !.pc = "train"])
  /\ UNCHANGED <<others, registry>>

\* Training is over: the file is opened, which empties it.
OpenFile(c) ==
  /\ call[c].pc = "train"
  /\ disk' = [disk EXCEPT ![Current(c)] = c]
  /\ Become(c, [call[c] EXCEPT !.pc = "save"])
  /\ UNCHANGED <<fixed, trainer, registry>>

\* All writers of a file write the same bytes (training is seeded), so the last
\* to open it is the one that makes it whole.
Written(s, writer) ==
  disk' = [disk EXCEPT ![s] = IF disk[s] = writer THEN "whole" ELSE disk[s]]

SaveSegment(c) ==
  /\ call[c].pc = "save"
  /\ Written(Current(c), c)
  /\ Become(c, Keep(c, "trained"))
  /\ UNCHANGED <<fixed, trainer, registry>>

\* Mutant: the registry is built anew for every request.
InstallForgotten(c) ==
  /\ call[c].pc = "load" /\ call[c].next > Len(SEGMENTS)
  /\ Become(c, [call[c] EXCEPT !.pc = "persist",
                  !.answer = Combine(call[c].mode, RuleScore(call[c].request.features),
                                     NoMl, Margin)])
  /\ UNCHANGED <<others, registry>>

Install(c) ==
  /\ call[c].pc = "load" /\ call[c].next > Len(SEGMENTS)
  /\ registry' = call[c].own
  /\ Become(c, [call[c] EXCEPT !.pc = call[c].back])
  /\ UNCHANGED others

HasModels == \E s \in Segments : registry[s] # "none"

\* Mutant: a production deployment marked as development is not held back.
HeldBackOnlyEmpty == ~HasModels

HeldBack == ~HasModels \/ settings.developmentOnly

\* The gate of assisted decisions in production.
Gate(c) ==
  /\ call[c].pc = "gate"
  /\ registry # NoRegistry
  /\ Become(c, [call[c] EXCEPT !.pc = "try",
                  !.mode = IF HeldBack THEN "SHADOW" ELSE call[c].mode])
  /\ UNCHANGED <<others, registry>>

\* The answer, from what a model said; member authentication stores no row.
Answered(c, ml, model) ==
  [call[c] EXCEPT
     !.pc = IF call[c].request.kind = "score" THEN "persist" ELSE "reply",
     !.own = NoModels, !.next = 1, !.model = model,
     !.answer = Combine(call[c].mode, RuleScore(call[c].request.features), ml, Margin)]

\* Mutant: nothing catches what the model raises.
LoadFailsUncaught(c) ==
  /\ Loading(c)
  /\ disk[Current(c)] \notin {"missing", "whole"}
  /\ Become(c, [call[c] EXCEPT !.pc = "error"])
  /\ UNCHANGED <<others, registry>>

\* _try_ml catches what the registry raises; the gate does not.
Failed(c) ==
  IF call[c].back = "try" THEN Answered(c, NoMl, "none")
  ELSE [call[c] EXCEPT !.pc = "error"]

\* Half a file.
LoadFails(c) ==
  /\ Loading(c)
  /\ disk[Current(c)] \notin {"missing", "whole"}
  /\ Become(c, Failed(c))
  /\ UNCHANGED <<others, registry>>

\* The org's model, or the default one.
ModelFor(org) ==
  IF registry[SegmentOf(org)] # "none" THEN registry[SegmentOf(org)]
  ELSE registry["DEFAULT"]

Predict(c) ==
  /\ call[c].pc = "try"
  /\ registry # NoRegistry
  /\ LET model == ModelFor(call[c].request.org) IN
     \/ /\ model # "none"
        /\ \E p \in Probabilities : Become(c, Answered(c, p, model))
     \/ Become(c, Answered(c, NoMl, "none"))
  /\ UNCHANGED <<others, registry>>

Persist(c) ==
  /\ call[c].pc = "persist"
  /\ Become(c, [call[c] EXCEPT !.pc = "reply", !.row = call[c].answer])
  /\ UNCHANGED <<others, registry>>

Reply(c) ==
  /\ call[c].pc \in {"reply", "error"}
  /\ Become(c, Idle)
  /\ UNCHANGED <<others, registry>>

-----------------------------------------------------------------------------
(* What goes wrong, and the offline trainer.                                *)

\* The files that one of the writers W was writing stay as they are.
Abandon(W) ==
  disk' = [s \in Segments |-> IF disk[s] \in W THEN "torn" ELSE disk[s]]

\* The training raises, or the file cannot be opened: it stays as it was.
OpenFails(c) ==
  /\ faults < MaxFaults
  /\ call[c].pc = "train"
  /\ faults' = faults + 1
  /\ Become(c, Failed(c))
  /\ UNCHANGED <<settings, absent, trainings, disk, trainer, registry>>

\* The disk is full: half a file stays, or a whole one without its description.
SaveFails(c) ==
  /\ faults < MaxFaults
  /\ call[c].pc = "save"
  /\ faults' = faults + 1
  /\ Abandon({c}) \/ Written(Current(c), c)
  /\ Become(c, Failed(c))
  /\ UNCHANGED <<settings, absent, trainings, trainer, registry>>

\* The audit row cannot be committed: 500.
PersistFails(c) ==
  /\ faults < MaxFaults
  /\ call[c].pc = "persist"
  /\ faults' = faults + 1
  /\ Become(c, [call[c] EXCEPT !.pc = "error"])
  /\ UNCHANGED <<settings, absent, trainings, disk, trainer, registry>>

Restart ==
  /\ faults < MaxFaults
  /\ faults' = faults + 1
  /\ Abandon(Calls)
  /\ registry' = NoRegistry
  /\ call' = [c \in Calls |-> Idle]
  /\ absent' = Missing
  /\ UNCHANGED <<settings, trainer, trainings>>

TrainerOpens(s) ==
  /\ trainer = Nobody
  /\ trainings < MaxTrainings
  /\ trainings' = trainings + 1
  /\ trainer' = s
  /\ disk' = [disk EXCEPT ![s] = "trainer"]
  /\ UNCHANGED <<settings, registry, call, absent, faults>>

TrainerSaves ==
  /\ trainer # Nobody
  /\ Written(trainer, "trainer")
  /\ trainer' = Nobody
  /\ UNCHANGED <<fixed, registry, call>>

TrainerStops ==
  /\ trainer # Nobody
  /\ faults < MaxFaults
  /\ faults' = faults + 1
  /\ Abandon({"trainer"})
  /\ trainer' = Nobody
  /\ UNCHANGED <<settings, absent, trainings, registry, call>>

Handle(c) ==
  \/ OpenRegistry(c) \/ LoadSegment(c) \/ SkipSegment(c) \/ TrainSegment(c)
  \/ OpenFile(c) \/ SaveSegment(c) \/ Install(c) \/ LoadFails(c)
  \/ Gate(c) \/ Predict(c) \/ Persist(c) \/ Reply(c)

Next ==
  \/ \E c \in Calls :
       Handle(c) \/ OpenFails(c) \/ SaveFails(c) \/ PersistFails(c)
  \/ \E c \in Calls, r \in Requests : Ask(c, r)
  \/ Restart
  \/ TrainerSaves \/ TrainerStops \/ \E s \in Segments : TrainerOpens(s)

Spec == Init /\ [][Next]_vars

\* The threads and the trainer keep running.
Fairness == (\A c \in Calls : WF_vars(Handle(c))) /\ WF_vars(TrainerSaves)

FairSpec == Spec /\ Fairness

-----------------------------------------------------------------------------
(* Properties.                                                              *)

Said(c) == call[c].answer # NoAnswer

Unrecorded(c) == Said(c) /\ call[c].row = NoAnswer

\* The rules decide unless a model may: a score other than the rules' is a
\* model's, was given with confidence, for an organisation in ML_ASSISTED, and
\* never by a production deployment marked as development.  In production that
\* model was read from an artifact, although the registry that answers need not
\* be the one that the gate looked at (citizen_risk_policy.py:44-46, 62, 76-89,
\* 117-158).
RulesUnlessTrusted ==
  \A c \in Calls : Said(c) =>
    LET a == call[c].answer  r == call[c].request IN
    \/ a.score = RuleScore(r.features) /\ a.source # "ML"
    \/ /\ a.source = "ML" /\ a.score = a.ml
       /\ Confidence(a.ml) >= Margin
       /\ RolloutFor(r.org) = "ML_ASSISTED"
       /\ settings.production => ~settings.developmentOnly /\ call[c].model = "loaded"

\* In production no model is ever one that the server trained, and no request
\* writes an artifact (citizen_risk_model.py:166-173, config.py:131-132).
NoSilentTraining ==
  settings.production =>
    /\ registry # NoRegistry => \A s \in Segments : registry[s] # "trained"
    /\ \A s \in Segments : disk[s] \notin Calls

\* A request ends in a 500 in two ways only.  The registry could not be opened for
\* an assisted decision in production, which happens outside the try; then
\* nothing was decided.  Or the audit row of a score could not be committed; then
\* a score was decided and the caller does not get it, and no row of it stays.
\* Whatever else becomes of the model or its files ends in an answer
\* (citizen_risk_policy.py:67, 80, citizen_risk_service.py:46).
ScoringSurvives ==
  \A c \in Calls : call[c].pc = "error" =>
    \/ /\ settings.production /\ RolloutFor(call[c].request.org) = "ML_ASSISTED"
       /\ ~Said(c)
    \/ call[c].request.kind = "score" /\ Unrecorded(c)

\* A registry once installed is not built again in the life of the process, so
\* it must be complete: it lacks a segment only if that had no file when the
\* process started, and none could be trained; half a file never makes it lose
\* one for good (citizen_risk_model.py:160-174, 195-199).
RegistryIsComplete ==
  registry # NoRegistry =>
    \A s \in Segments : registry[s] = "none" => s \in absent /\ ~MayTrain

\* Two citizens scored by the rules at the same time: who is at least as risky
\* in every respect never scores lower (citizen_risk_rules.py:7-40).
RiskierNeverScoresLower ==
  \A c, d \in Calls :
    /\ Said(c) /\ Said(d) /\ "ML" \notin {call[c].answer.source, call[d].answer.source}
    /\ AtLeastAsRisky(call[c].request.features, call[d].request.features)
    => call[c].answer.score >= call[d].answer.score

\* While requests keep coming, a registry is installed again and again, unless
\* a file was left torn: half a file met while another thread writes it costs
\* one fallback and no more (citizen_risk_model.py:195-199).
RegistryComesUp ==
  []<>(\E c \in Calls : call[c].pc \in {"gate", "try"})
    => []<>(registry # NoRegistry \/ \E s \in Segments : disk[s] = "torn")

\* The inductive invariant.  A file never goes missing.  A request past the
\* gate decides with a model only where that is allowed, one that waits at it
\* is an assisted decision in production, and no row is there before its score
\* is.  A registry being built already keeps
\* what RegistryIsComplete and NoSilentTraining ask of the installed one.
MissingInv == Missing \subseteq absent

IdleInv == \A c \in Calls : call[c].pc = "idle" => ~Said(c)

ModeInv ==
  \A c \in Calls : call[c].pc # "idle" =>
    LET r == RolloutFor(call[c].request.org)
        loading == call[c].pc \in {"load", "train", "save"}
    IN
    /\ call[c].request \in Requests
    /\ call[c].mode \in {r, "SHADOW"}
    /\ call[c].pc = "gate" \/ (loading /\ call[c].back = "gate") =>
         settings.production /\ r = "ML_ASSISTED"
    /\ call[c].pc = "try" \/ (loading /\ call[c].back = "try") =>
         ~( /\ call[c].mode = "ML_ASSISTED"
            /\ settings.production /\ settings.developmentOnly )
    /\ call[c].pc \in {"gate", "try"} \/ loading => ~Said(c) /\ call[c].row = NoAnswer
    /\ call[c].pc = "persist" => call[c].request.kind = "score" /\ Unrecorded(c)

BuildInv ==
  \A c \in Calls :
    /\ call[c].pc \in {"train", "save"} => MayTrain /\ call[c].next <= Len(SEGMENTS)
    /\ \A s \in Segments : call[c].own[s] = "trained" => MayTrain
    /\ call[c].pc \in {"load", "train", "save"} =>
         \A i \in DOMAIN SEGMENTS :
           i < call[c].next /\ call[c].own[SEGMENTS[i]] = "none" =>
             SEGMENTS[i] \in absent /\ ~MayTrain

IInv ==
  /\ TypeOK /\ MissingInv /\ IdleInv /\ ModeInv /\ BuildInv
  /\ RulesUnlessTrusted /\ NoSilentTraining /\ ScoringSurvives /\ RegistryIsComplete

=============================================================================
