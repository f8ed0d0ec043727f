---------------------------- MODULE ScoringProofs ----------------------------
(***************************************************************************)
(* Proofs about the citizen risk score, for any segments, settings,        *)
(* requests, threads, probabilities and faults.                            *)
(***************************************************************************)
EXTENDS Scoring, TLAPS

-----------------------------------------------------------------------------
(* The rules and the policy.                                                *)

\* The rules' score is a score.
LEMMA RuleScoreType ==
  ASSUME NEW f \in Features
  PROVE  RuleScore(f) \in 0..100
<1>1. /\ f.late \in Nat /\ f.overdue \in Nat /\ f.compliance \in Nat
      /\ f.pins \in Nat /\ f.location \in Nat /\ f.swap \in BOOLEAN
      BY DEF Features
<1>2. RuleSum(f) \in Nat
      BY <1>1 DEF RuleSum, LateWeight, Weight
<1>3. QED  BY <1>2 DEF RuleScore

\* A riskier citizen never scores lower.
LEMMA RuleScoreMonotone ==
  ASSUME NEW f \in Features, NEW g \in Features, AtLeastAsRisky(f, g)
  PROVE  RuleScore(f) >= RuleScore(g)
<1>1. /\ f.late \in Nat /\ f.overdue \in Nat /\ f.compliance \in Nat
      /\ f.pins \in Nat /\ f.location \in Nat /\ f.swap \in BOOLEAN
      /\ g.late \in Nat /\ g.overdue \in Nat /\ g.compliance \in Nat
      /\ g.pins \in Nat /\ g.location \in Nat /\ g.swap \in BOOLEAN
      BY DEF Features
<1>2. LateWeight(f.late) \in Nat /\ LateWeight(g.late) \in Nat
      BY <1>1 DEF LateWeight
<1>3. LateWeight(f.late) >= LateWeight(g.late)
      BY <1>1 DEF LateWeight, AtLeastAsRisky
<1>4. Weight(f.overdue >= 3, 25) >= Weight(g.overdue >= 3, 25)
      BY <1>1 DEF Weight, AtLeastAsRisky
<1>5. Weight(f.compliance >= 1, 20) >= Weight(g.compliance >= 1, 20)
      BY <1>1 DEF Weight, AtLeastAsRisky
<1>6. Weight(f.pins >= 3, 15) >= Weight(g.pins >= 3, 15)
      BY <1>1 DEF Weight, AtLeastAsRisky
<1>7. Weight(f.swap, 25) >= Weight(g.swap, 25)
      BY <1>1 DEF Weight, AtLeastAsRisky
<1>8. Weight(f.location >= 8, 10) >= Weight(g.location >= 8, 10)
      BY <1>1 DEF Weight, AtLeastAsRisky
<1>9. ASSUME NEW b, NEW n \in Nat PROVE Weight(b, n) \in Nat
      BY DEF Weight
<1>10. RuleSum(f) >= RuleSum(g) /\ RuleSum(f) \in Nat /\ RuleSum(g) \in Nat
       BY <1>2, <1>3, <1>4, <1>5, <1>6, <1>7, <1>8, <1>9 DEF RuleSum
<1>11. QED  BY <1>10 DEF RuleScore

\* A level is one of the three.
LEMMA LevelType == ASSUME NEW score PROVE RiskLevelFor(score) \in Levels
  BY DEF RiskLevelFor, Levels

\* What the policy may answer: the rules' score, or a confident model's in the
\* assisted mode.
Allowed(a, mode, rules, ml) ==
  /\ a \in Answers
  /\ a.source = "ML" =>
       /\ mode = "ML_ASSISTED" /\ a.score = ml /\ a.ml = ml
       /\ Confidence(ml) >= Margin
  /\ a.source # "ML" => a.score = rules

\* It answers nothing else.
LEMMA CombineAnswers ==
  ASSUME NEW mode \in Modes, NEW rules \in 0..100,
         NEW ml \in Probabilities \cup {NoMl},
         NEW a, a = Combine(mode, rules, ml, Margin)
  PROVE  Allowed(a, mode, rules, ml)
<1>1. /\ "ML" \in Sources /\ "RULE_BASED_FALLBACK" \in Sources /\ "BOTH" \in Sources
      /\ "none" \in Reasons /\ "rollout_disabled" \in Reasons
      /\ "ml_unavailable" \in Reasons /\ "low_confidence" \in Reasons
      /\ "low_confidence_shadow" \in Reasons
      BY DEF Sources, Reasons
<1>2. CASE mode = "DISABLED"
  <2>1. a = Bundle(rules, "RULE_BASED_FALLBACK", "rollout_disabled", mode, ml)
        BY <1>2 DEF Combine
  <2>2. a \in Answers /\ a.source = "RULE_BASED_FALLBACK" /\ a.score = rules
        BY <1>1, <2>1, LevelType DEF Bundle, Answers
  <2>3. QED  BY <2>2 DEF Allowed
<1>3. CASE mode # "DISABLED" /\ ml = NoMl
  <2>1. a = Bundle(rules, "RULE_BASED_FALLBACK", "ml_unavailable", mode, ml)
        BY <1>3 DEF Combine
  <2>2. a \in Answers /\ a.source = "RULE_BASED_FALLBACK" /\ a.score = rules
        BY <1>1, <2>1, LevelType DEF Bundle, Answers
  <2>3. QED  BY <2>2 DEF Allowed
<1>4. CASE mode = "SHADOW" /\ ml # NoMl
  <2>1. \/ a = Bundle(rules, "BOTH", "none", mode, ml)
        \/ a = Bundle(rules, "BOTH", "low_confidence_shadow", mode, ml)
        BY <1>4 DEF Combine
  <2>2. a \in Answers /\ a.source = "BOTH" /\ a.score = rules
        BY <1>1, <2>1, LevelType DEF Bundle, Answers
  <2>3. QED  BY <2>2 DEF Allowed
<1>5. CASE mode = "ML_ASSISTED" /\ ml # NoMl /\ Confident(ml, Margin)
  <2>1. a = Bundle(ml, "ML", "none", mode, ml)
        BY <1>5 DEF Combine
  <2>2. ml \in 0..100
        BY <1>5, ParameterAssumption
  <2>3. a \in Answers /\ a.source = "ML" /\ a.score = ml /\ a.ml = ml
        BY <1>1, <2>1, <2>2, LevelType DEF Bundle, Answers
  <2>4. QED  BY <1>5, <2>3 DEF Allowed, Confident
<1>6. CASE mode = "ML_ASSISTED" /\ ml # NoMl /\ ~Confident(ml, Margin)
  <2>1. a = Bundle(rules, "RULE_BASED_FALLBACK", "low_confidence", mode, ml)
        BY <1>6 DEF Combine
  <2>2. a \in Answers /\ a.source = "RULE_BASED_FALLBACK" /\ a.score = rules
        BY <1>1, <2>1, LevelType DEF Bundle, Answers
  <2>3. QED  BY <2>2 DEF Allowed
<1>7. QED  BY <1>2, <1>3, <1>4, <1>5, <1>6 DEF Modes

\* It takes no model's word where no model spoke.
LEMMA ModelNeeded ==
  ASSUME NEW mode \in Modes, NEW rules, NEW ml,
         Combine(mode, rules, ml, Margin).source = "ML"
  PROVE  ml # NoMl
<1>1. SUFFICES ASSUME ml = NoMl PROVE FALSE
      OBVIOUS
<1>2. \/ Combine(mode, rules, ml, Margin) =
           Bundle(rules, "RULE_BASED_FALLBACK", "rollout_disabled", mode, ml)
      \/ Combine(mode, rules, ml, Margin) =
           Bundle(rules, "RULE_BASED_FALLBACK", "ml_unavailable", mode, ml)
      BY <1>1 DEF Combine
<1>3. QED  BY <1>2 DEF Bundle

\* A rollout mode is one of the three.
LEMMA RolloutType == ASSUME NEW org PROVE RolloutFor(org) \in Modes
  BY DEF RolloutFor, Modes

-----------------------------------------------------------------------------
(* The inductive invariant, thread by thread.                               *)

\* What it says of one thread depends on the configuration and on which files
\* were missing at the start, not on the disk or the registry.
ModeOf(t) ==
  /\ t.request \in Requests
  /\ t.mode \in {RolloutFor(t.request.org), "SHADOW"}
  /\ t.pc = "gate" \/ (t.pc \in {"load", "train", "save"} /\ t.back = "gate") =>
       settings.production /\ RolloutFor(t.request.org) = "ML_ASSISTED"
  /\ t.pc = "try" \/ (t.pc \in {"load", "train", "save"} /\ t.back = "try") =>
       ~( /\ t.mode = "ML_ASSISTED"
          /\ settings.production /\ settings.developmentOnly )
  /\ t.pc \in {"gate", "try", "load", "train", "save"} =>
       t.answer = NoAnswer /\ t.row = NoAnswer
  /\ t.pc = "persist" =>
       t.request.kind = "score" /\ t.answer # NoAnswer /\ t.row = NoAnswer

BuildOf(t) ==
  /\ t.pc \in {"train", "save"} => MayTrain /\ t.next <= Len(SEGMENTS)
  /\ \A s \in Segments : t.own[s] = "trained" => MayTrain
  /\ t.pc \in {"load", "train", "save"} =>
       \A i \in DOMAIN SEGMENTS :
         i < t.next /\ t.own[SEGMENTS[i]] = "none" => SEGMENTS[i] \in absent /\ ~MayTrain

TrustedOf(t) ==
  t.answer # NoAnswer =>
    \/ t.answer.score = RuleScore(t.request.features) /\ t.answer.source # "ML"
    \/ /\ t.answer.source = "ML" /\ t.answer.score = t.answer.ml
       /\ Confidence(t.answer.ml) >= Margin
       /\ RolloutFor(t.request.org) = "ML_ASSISTED"
       /\ settings.production => ~settings.developmentOnly /\ t.model = "loaded"

ErrorOf(t) ==
  t.pc = "error" =>
    \/ /\ settings.production /\ RolloutFor(t.request.org) = "ML_ASSISTED"
       /\ t.answer = NoAnswer
    \/ t.request.kind = "score" /\ t.answer # NoAnswer /\ t.row = NoAnswer

Good(t) ==
  /\ t \in Thread
  /\ t.pc = "idle" => t.answer = NoAnswer
  /\ t.pc # "idle" => ModeOf(t)
  /\ BuildOf(t) /\ TrustedOf(t) /\ ErrorOf(t)

\* What it says of the process and the files.
Shared ==
  /\ settings \in Settings
  /\ disk \in [Segments -> {"missing", "whole", "torn", "trainer"} \cup Calls]
  /\ trainer \in Segments \cup {Nobody}
  /\ registry \in Models \cup {NoRegistry}
  /\ absent \subseteq Segments
  /\ trainings \in Nat /\ faults \in Nat
  /\ MissingInv /\ NoSilentTraining /\ RegistryIsComplete

\* The two halves make up the invariant.
LEMMA Join ==
  ASSUME Shared, call \in [Calls -> Thread], \A c \in Calls : Good(call[c])
  PROVE  IInv
<1>1. TypeOK /\ MissingInv /\ NoSilentTraining /\ RegistryIsComplete
      BY DEF Shared, TypeOK
<1>2. IdleInv /\ ModeInv
      BY DEF Good, ModeOf, ModeInv, IdleInv, Said, Unrecorded
<1>3. BuildInv
      BY DEF Good, BuildOf, BuildInv
<1>4. RulesUnlessTrusted /\ ScoringSurvives
      BY DEF Good, TrustedOf, ErrorOf, RulesUnlessTrusted, Said, Unrecorded, ScoringSurvives
<1>5. QED  BY <1>1, <1>2, <1>3, <1>4 DEF IInv

\* The same of the next state.
LEMMA JoinNext ==
  ASSUME Shared', (call \in [Calls -> Thread])', (\A c \in Calls : Good(call[c]))'
  PROVE  IInv'
<1>1. TypeOK' /\ MissingInv' /\ NoSilentTraining' /\ RegistryIsComplete'
      BY DEF Shared, TypeOK
<1>2. IdleInv' /\ ModeInv'
      BY DEF Good, ModeOf, ModeInv, IdleInv, Said, Unrecorded
<1>3. BuildInv'
      BY DEF Good, BuildOf, BuildInv
<1>4. RulesUnlessTrusted' /\ ScoringSurvives'
      BY DEF Good, TrustedOf, ErrorOf, RulesUnlessTrusted, Said, Unrecorded, ScoringSurvives
<1>5. QED  BY <1>1, <1>2, <1>3, <1>4 DEF IInv

\* And the invariant gives the two halves.
LEMMA Split ==
  ASSUME IInv
  PROVE  Shared /\ call \in [Calls -> Thread] /\ \A c \in Calls : Good(call[c])
<1>1. Shared /\ call \in [Calls -> Thread]
      BY DEF IInv, TypeOK, Shared
<1>2. ASSUME NEW c \in Calls PROVE Good(call[c])
  <2>1. call[c] \in Thread
        BY <1>1
  <2>2. call[c].pc = "idle" => call[c].answer = NoAnswer
        BY DEF IInv, IdleInv, Said
  <2>3. call[c].pc # "idle" => ModeOf(call[c])
        BY DEF IInv, ModeInv, ModeOf, Said, Unrecorded
  <2>4. BuildOf(call[c])
        BY DEF IInv, BuildInv, BuildOf
  <2>5. TrustedOf(call[c])
        BY DEF IInv, RulesUnlessTrusted, TrustedOf, Said
  <2>6. ErrorOf(call[c])
        BY DEF IInv, ScoringSurvives, ErrorOf, Said, Unrecorded
  <2>7. QED  BY <2>1, <2>2, <2>3, <2>4, <2>5, <2>6 DEF Good
<1>3. QED  BY <1>1, <1>2

\* An idle thread is good whatever the settings and the files.
LEMMA IdleIsGood == Good(Idle) /\ Idle \in Thread
<1>1. Idle.own \in Models /\ Idle.next \in Nat \ {0}
      BY DEF Idle, NoModels, Models, ModelKinds
<1>2. Idle \in Thread
      BY DEF Idle, Thread, NoModels, Models, ModelKinds, Modes
<1>3. Idle.pc = "idle" /\ Idle.answer = NoAnswer /\ \A s \in Segments : Idle.own[s] = "none"
      BY DEF Idle, NoModels
<1>4. QED  BY <1>2, <1>3 DEF Good, BuildOf, TrustedOf, ErrorOf

\* Good depends on the settings and on what was missing only.
LEMMA GoodStable ==
  ASSUME UNCHANGED <<settings, absent>>, NEW c \in Calls, NEW t, Good(t), call'[c] = t
  PROVE  Good(call[c])'
<1>1. RolloutFor(call[c].request.org)' = RolloutFor(t.request.org)
      BY DEF RolloutFor
<1>2. MayTrain' <=> MayTrain
      BY DEF MayTrain
<1>3. t.pc # "idle" => ModeOf(call[c])'
      BY <1>1 DEF Good, ModeOf
<1>4. BuildOf(call[c])'
      BY <1>2 DEF Good, BuildOf
<1>5. TrustedOf(call[c])'
      BY <1>1 DEF Good, TrustedOf
<1>6. ErrorOf(call[c])'
      BY <1>1 DEF Good, ErrorOf
<1>7. QED  BY <1>3, <1>4, <1>5, <1>6 DEF Good

\* The invariant holds when the process starts.
LEMMA InitInv == Init => IInv
<1>1. SUFFICES ASSUME Init PROVE IInv
      OBVIOUS
<1>2. call \in [Calls -> Thread] /\ \A c \in Calls : Good(call[c])
      BY <1>1, IdleIsGood DEF Init
<1>3. Shared
  <2>1. MissingInv /\ RegistryIsComplete
        BY <1>1 DEF Init, MissingInv, RegistryIsComplete, Missing
  <2>2. NoSilentTraining
    <3>1. \A s \in Segments : disk[s] \notin Calls
          BY <1>1, ParameterAssumption DEF Init
    <3>2. QED  BY <1>1, <3>1 DEF Init, NoSilentTraining
  <2>3. QED  BY <1>1, <2>1, <2>2 DEF Init, Shared, Missing
<1>4. QED  BY <1>2, <1>3, Join

\* A step of one thread need only be looked at there and at what is shared.
LEMMA OneThread ==
  ASSUME IInv, NEW c \in Calls, NEW t, UNCHANGED <<settings, absent>>,
         Become(c, t), Good(t), Shared'
  PROVE  IInv'
<1>1. call' = [call EXCEPT ![c] = t] /\ t \in Thread
      BY DEF Become, Good
<1>2. call \in [Calls -> Thread] /\ \A d \in Calls : Good(call[d])
      BY Split
<1>3. (call \in [Calls -> Thread])'
      BY <1>1, <1>2
<1>4. ASSUME NEW d \in Calls PROVE Good(call[d])'
  <2>1. CASE d = c
    <3>1. call'[d] = t
          BY <1>1, <1>2, <2>1
    <3>2. QED  BY <3>1, GoodStable
  <2>2. CASE d # c
    <3>1. call'[d] = call[d] /\ Good(call[d])
          BY <1>1, <1>2, <2>2
    <3>2. QED  BY <3>1, GoodStable
  <2>3. QED  BY <2>1, <2>2
<1>5. (\A d \in Calls : Good(call[d]))'
      BY <1>4
<1>6. QED  BY <1>3, <1>5, JoinNext

-----------------------------------------------------------------------------
(* What the steps of a thread make of it.                                   *)

\* The settings that the rules of training and of the gate ask.
LEMMA SettingsType ==
  ASSUME Shared
  PROVE  /\ settings.production \in BOOLEAN /\ settings.training \in BOOLEAN
         /\ settings.developmentOnly \in BOOLEAN /\ MayTrain \in BOOLEAN
         /\ settings.production => ~MayTrain
  BY SettingsAssumption DEF Shared, MayTrain

\* Segments are named by their places in the order of loading.
LEMMA SegmentOfPlace ==
  ASSUME NEW n \in Nat \ {0}, n <= Len(SEGMENTS)
  PROVE  n \in DOMAIN SEGMENTS /\ SEGMENTS[n] \in Segments
  BY ParameterAssumption DEF Segments

\* A thread that begins to build a registry has nothing in it yet.
LEMMA OpenGood ==
  ASSUME NEW t, Good(t), t.pc \in {"gate", "try"}, NEW u,
         u = [t EXCEPT !.pc = "load", !.back = t.pc, !.own = NoModels, !.next = 1]
  PROVE  Good(u)
<1>1. t \in Thread
      BY DEF Good
<1>2. NoModels \in Models /\ \A s \in Segments : NoModels[s] = "none"
      BY DEF NoModels, Models, ModelKinds
<1>3. u \in Thread
  <2>1. /\ t.request \in Requests \cup {NoRequest} /\ t.mode \in Modes
        /\ t.answer \in Answers \cup {NoAnswer} /\ t.row \in Answers \cup {NoAnswer}
        /\ t.model \in ModelKinds
        /\ u = [pc |-> "load", request |-> t.request, mode |-> t.mode, back |-> t.pc,
                own |-> NoModels, next |-> 1, answer |-> t.answer, model |-> t.model,
                row |-> t.row]
        BY <1>1 DEF Thread
  <2>2. QED  BY <1>2, <2>1 DEF Thread
<1>4. /\ u.pc = "load" /\ u.back = t.pc /\ u.own = NoModels /\ u.next = 1
      /\ u.request = t.request /\ u.mode = t.mode /\ u.answer = t.answer
      /\ u.model = t.model /\ u.row = t.row
      BY <1>1 DEF Thread
<1>5. ModeOf(u)
      BY <1>4 DEF Good, ModeOf
<1>6. BuildOf(u)
      BY <1>2, <1>4, ParameterAssumption DEF BuildOf
<1>7. TrustedOf(u)
      BY <1>4 DEF Good, TrustedOf
<1>8. QED  BY <1>3, <1>4, <1>5, <1>6, <1>7 DEF Good, ErrorOf

\* A segment is dealt with: loaded, trained where that is allowed, or left out
\* where it was missing from the start and training is not allowed.
LEMMA KeepGood ==
  ASSUME NEW t, Good(t), t.pc \in {"load", "save"}, t.next <= Len(SEGMENTS),
         NEW how \in {"none", "loaded", "trained"},
         how = "trained" => MayTrain,
         how = "none" => SEGMENTS[t.next] \in absent /\ ~MayTrain,
         NEW u, u = [t EXCEPT !.pc = "load", !.own[SEGMENTS[t.next]] = how,
                              !.next = t.next + 1]
  PROVE  Good(u)
<1>1. t \in Thread /\ t.own \in Models /\ t.next \in Nat \ {0}
      BY DEF Good, Thread
<1>2. SEGMENTS[t.next] \in Segments
      BY <1>1, SegmentOfPlace
<1>3. /\ u.pc = "load" /\ u.back = t.back /\ u.next = t.next + 1
      /\ u.request = t.request /\ u.mode = t.mode /\ u.answer = t.answer
      /\ u.model = t.model /\ u.row = t.row
      /\ u.own = [t.own EXCEPT ![SEGMENTS[t.next]] = how]
      BY <1>1 DEF Thread
<1>4. u.own \in Models
      BY <1>1, <1>2, <1>3 DEF Models, ModelKinds
<1>5. u \in Thread
  <2>1. /\ t.request \in Requests \cup {NoRequest} /\ t.mode \in Modes
        /\ t.answer \in Answers \cup {NoAnswer} /\ t.row \in Answers \cup {NoAnswer}
        /\ t.model \in ModelKinds
        /\ t.back \in {"gate", "try"} /\ t.next + 1 \in Nat \ {0}
        BY <1>1 DEF Thread
  <2>2. u = [pc |-> "load", request |-> t.request, mode |-> t.mode, back |-> t.back,
             own |-> u.own, next |-> t.next + 1, answer |-> t.answer, model |-> t.model,
             row |-> t.row]
        BY <1>1 DEF Thread
  <2>3. QED  BY <1>4, <2>1, <2>2 DEF Thread
<1>6. /\ u.own[SEGMENTS[t.next]] = how
      /\ \A s \in Segments : s # SEGMENTS[t.next] => u.own[s] = t.own[s]
      BY <1>1, <1>2, <1>3 DEF Models, ModelKinds
<1>7. ModeOf(u)
      BY <1>3 DEF Good, ModeOf
<1>8. BuildOf(u)
  <2>1. \A s \in Segments : u.own[s] = "trained" => MayTrain
        BY <1>6 DEF Good, BuildOf
  <2>2. ASSUME NEW i \in DOMAIN SEGMENTS, i < u.next, u.own[SEGMENTS[i]] = "none"
        PROVE  SEGMENTS[i] \in absent /\ ~MayTrain
    <3>1. SEGMENTS[i] \in Segments
          BY DEF Segments
    <3>2. CASE SEGMENTS[i] = SEGMENTS[t.next]
          BY <1>6, <2>2, <3>2
    <3>3. CASE SEGMENTS[i] # SEGMENTS[t.next]
      <4>1. i \in Nat /\ i # t.next
            BY <3>3, ParameterAssumption
      <4>2. i < t.next
            BY <1>1, <1>3, <2>2, <4>1
      <4>3. t.own[SEGMENTS[i]] = "none"
            BY <1>6, <2>2, <3>1, <3>3
      <4>4. QED  BY <4>2, <4>3 DEF Good, BuildOf
    <3>4. QED  BY <3>2, <3>3
  <2>3. QED  BY <1>3, <2>1, <2>2 DEF BuildOf
<1>9. TrustedOf(u)
      BY <1>3 DEF Good, TrustedOf
<1>10. QED  BY <1>3, <1>5, <1>7, <1>8, <1>9 DEF Good, ErrorOf

\* Training a missing segment, and opening its file.
LEMMA TrainGood ==
  ASSUME NEW t, Good(t), t.pc \in {"load", "train"}, NEW p \in {"train", "save"},
         t.next <= Len(SEGMENTS), MayTrain, NEW u, u = [t EXCEPT !.pc = p]
  PROVE  Good(u)
<1>1. t \in Thread
      BY DEF Good
<1>2. u \in Thread
      BY <1>1 DEF Thread
<1>3. /\ u.pc = p /\ u.back = t.back /\ u.next = t.next /\ u.own = t.own
      /\ u.request = t.request /\ u.mode = t.mode /\ u.answer = t.answer
      /\ u.model = t.model /\ u.row = t.row
      BY <1>1 DEF Thread
<1>4. ModeOf(u) /\ BuildOf(u) /\ TrustedOf(u)
      BY <1>3 DEF Good, ModeOf, BuildOf, TrustedOf
<1>5. QED  BY <1>2, <1>3, <1>4 DEF Good, ErrorOf

\* A thread whose registry is installed goes back to where it needed it.
LEMMA InstallGood ==
  ASSUME NEW t, Good(t), t.pc = "load", NEW u, u = [t EXCEPT !.pc = t.back]
  PROVE  Good(u)
<1>1. t \in Thread
      BY DEF Good
<1>2. u \in Thread
      BY <1>1 DEF Thread
<1>3. /\ u.pc = t.back /\ u.back = t.back /\ u.next = t.next /\ u.own = t.own
      /\ u.request = t.request /\ u.mode = t.mode /\ u.answer = t.answer
      /\ u.model = t.model /\ u.row = t.row
      /\ t.back \in {"gate", "try"}
      BY <1>1 DEF Thread
<1>4. ModeOf(u) /\ BuildOf(u) /\ TrustedOf(u)
      BY <1>3 DEF Good, ModeOf, BuildOf, TrustedOf
<1>5. QED  BY <1>2, <1>3, <1>4 DEF Good, ErrorOf

\* A thread that was answered keeps to what the policy may say.
LEMMA AnsweredGood ==
  ASSUME Shared, NEW c \in Calls, Good(call[c]), NEW ml \in Probabilities \cup {NoMl},
         NEW model \in ModelKinds,
         settings.production /\ ml # NoMl => model = "loaded",
         \/ call[c].pc = "try"
         \/ call[c].pc \in {"load", "train", "save"} /\ call[c].back = "try"
  PROVE  Good(Answered(c, ml, model))
<1> DEFINE t == call[c]
           said == Combine(t.mode, RuleScore(t.request.features), ml, Margin)
           p == IF t.request.kind = "score" THEN "persist" ELSE "reply"
           u == Answered(c, ml, model)
<1>1. /\ t \in Thread /\ t.mode \in Modes
      /\ t.request \in Requests /\ t.request.features \in Features
      /\ t.mode \in {RolloutFor(t.request.org), "SHADOW"}
      /\ ~(t.mode = "ML_ASSISTED" /\ settings.production /\ settings.developmentOnly)
      /\ t.row = NoAnswer
      BY ParameterAssumption DEF Good, ModeOf, Thread
<1>2. RuleScore(t.request.features) \in 0..100
      BY <1>1, RuleScoreType
<1>3. Allowed(said, t.mode, RuleScore(t.request.features), ml)
  <2>1. said = Combine(t.mode, RuleScore(t.request.features), ml, Margin)
        OBVIOUS
  <2> HIDE DEF t, said
  <2>2. QED  BY <1>1, <1>2, <2>1, CombineAnswers
<1>4. u = [t EXCEPT !.pc = p, !.own = NoModels, !.next = 1, !.model = model,
                    !.answer = said]
      BY DEF Answered
<1>5. /\ p \in {"persist", "reply"}
      /\ p = "persist" => t.request.kind = "score"
      OBVIOUS
<1>6. NoModels \in Models /\ \A s \in Segments : NoModels[s] = "none"
      BY DEF NoModels, Models, ModelKinds
<1> HIDE DEF t, said, p, u
<1>7. u \in Thread
  <2>1. /\ t.back \in {"gate", "try"} /\ t.row \in Answers \cup {NoAnswer}
        /\ u = [pc |-> p, request |-> t.request, mode |-> t.mode, back |-> t.back,
                own |-> NoModels, next |-> 1, answer |-> said, model |-> model,
                row |-> t.row]
        BY <1>1, <1>4 DEF Thread
  <2>2. QED  BY <1>1, <1>3, <1>5, <1>6, <2>1 DEF Allowed, Thread
<1>8. /\ u.pc = p /\ u.own = NoModels /\ u.answer = said
      /\ u.model = model /\ u.row = t.row /\ u.request = t.request /\ u.mode = t.mode
      BY <1>1, <1>4 DEF Thread
<1>9. ModeOf(u)
      BY <1>1, <1>3, <1>5, <1>8, AnswerAssumption DEF Allowed, ModeOf
<1>10. BuildOf(u)
       BY <1>5, <1>6, <1>8 DEF BuildOf
<1>11. TrustedOf(u)
  <2>1. CASE said.source = "ML"
    <3>1. said.ml = ml /\ t.mode = "ML_ASSISTED"
          BY <1>3, <2>1 DEF Allowed
    <3>2. ml # NoMl
          BY <1>1, <2>1, ModelNeeded DEF said
    <3>3. QED  BY <1>1, <1>3, <1>8, <2>1, <3>1, <3>2 DEF Allowed, TrustedOf
  <2>2. CASE said.source # "ML"
        BY <1>3, <1>8, <2>2 DEF Allowed, TrustedOf
  <2>3. QED  BY <2>1, <2>2
<1>12. QED  BY <1>5, <1>7, <1>8, <1>9, <1>10, <1>11 DEF Good, ErrorOf, u

\* What cannot be loaded or saved costs the model's opinion, or at the gate the
\* answer.
LEMMA FailedGood ==
  ASSUME Shared, NEW c \in Calls, Good(call[c]),
         call[c].pc \in {"load", "train", "save"}
  PROVE  Good(Failed(c))
<1>1. CASE call[c].back = "try"
      BY <1>1, AnsweredGood DEF Failed, ModelKinds
<1>2. CASE call[c].back # "try"
  <2> DEFINE t == call[c]
             u == [t EXCEPT !.pc = "error"]
  <2>1. t \in Thread /\ t.back = "gate"
        BY <1>2 DEF Good, Thread
  <2>2. u \in Thread
        BY <2>1 DEF Thread
  <2>3. /\ u.pc = "error" /\ u.back = t.back /\ u.next = t.next /\ u.own = t.own
        /\ u.request = t.request /\ u.mode = t.mode /\ u.answer = t.answer
        /\ u.model = t.model /\ u.row = t.row
        BY <2>1 DEF Thread
  <2>4. t.pc \in {"load", "train", "save"} /\ Good(t)
        OBVIOUS
  <2>5. Failed(c) = u
        BY <1>2 DEF Failed
  <2> HIDE DEF t, u
  <2>6. /\ ModeOf(u)
        /\ settings.production /\ RolloutFor(u.request.org) = "ML_ASSISTED"
        /\ u.answer = NoAnswer
        BY <2>1, <2>3, <2>4 DEF Good, ModeOf
  <2>7. BuildOf(u) /\ TrustedOf(u) /\ ErrorOf(u)
        BY <2>3, <2>4, <2>6 DEF Good, BuildOf, TrustedOf, ErrorOf
  <2>8. QED  BY <2>2, <2>3, <2>5, <2>6, <2>7 DEF Good
<1>3. QED  BY <1>1, <1>2

-----------------------------------------------------------------------------
(* What the steps make of the files and the registry.                       *)

\* Files are never deleted, and none is written by a request in production.
LEMMA DiskInv ==
  ASSUME Shared, UNCHANGED <<settings, registry, absent>>,
         disk' \in [Segments -> {"missing", "whole", "torn", "trainer"} \cup Calls],
         trainer' \in Segments \cup {Nobody}, trainings' \in Nat, faults' \in Nat,
         \A s \in Segments : disk'[s] = "missing" => disk[s] = "missing",
         \A s \in Segments : disk'[s] \in Calls => disk[s] \in Calls \/ MayTrain
  PROVE  Shared'
<1>1. MissingInv'
      BY DEF Shared, MissingInv, Missing
<1>2. NoSilentTraining'
      BY SettingsType DEF Shared, NoSilentTraining
<1>3. RegistryIsComplete'
      BY DEF Shared, RegistryIsComplete, MayTrain
<1>4. QED  BY <1>1, <1>2, <1>3 DEF Shared

\* A step that leaves the files and the registry alone.
LEMMA SameShared ==
  ASSUME Shared, UNCHANGED <<settings, registry, absent, disk, trainer, trainings>>,
         faults' \in Nat
  PROVE  Shared'
  BY DiskInv DEF Shared

\* Finishing a file, and leaving it half written.
LEMMA WrittenInv ==
  ASSUME Shared, UNCHANGED <<settings, registry, absent, trainings>>,
         NEW s \in Segments, NEW writer, Written(s, writer),
         trainer' \in Segments \cup {Nobody}, faults' \in Nat
  PROVE  Shared'
<1>1. disk \in [Segments -> {"missing", "whole", "torn", "trainer"} \cup Calls]
      BY DEF Shared
<1>2. \A q \in Segments : disk'[q] \in {disk[q], "whole"}
      BY <1>1 DEF Written
<1>3. disk' \in [Segments -> {"missing", "whole", "torn", "trainer"} \cup Calls]
      BY <1>1 DEF Written
<1>4. \A q \in Segments : disk'[q] \in Calls => disk[q] \in Calls
      BY <1>2, ParameterAssumption
<1>5. QED  BY <1>2, <1>3, <1>4, DiskInv DEF Shared

\* A writer that stops leaves half a file.
LEMMA AbandonFacts ==
  ASSUME Shared, NEW W, Abandon(W)
  PROVE  /\ disk' \in [Segments -> {"missing", "whole", "torn", "trainer"} \cup Calls]
         /\ \A s \in Segments : disk'[s] = IF disk[s] \in W THEN "torn" ELSE disk[s]
  BY DEF Shared, Abandon

LEMMA AbandonInv ==
  ASSUME Shared, UNCHANGED <<settings, registry, absent, trainings>>,
         NEW W, Abandon(W), trainer' \in Segments \cup {Nobody}, faults' \in Nat
  PROVE  Shared'
<1>1. \A s \in Segments : disk'[s] \in {disk[s], "torn"}
      BY AbandonFacts
<1>2. \A s \in Segments : disk'[s] \in Calls => disk[s] \in Calls
      BY <1>1, ParameterAssumption
<1>3. QED  BY <1>1, <1>2, AbandonFacts, DiskInv DEF Shared

-----------------------------------------------------------------------------
(* Every step keeps the invariant.                                          *)

\* The steps of a thread that neither write a file nor install a registry.
LEMMA QuietInv ==
  ASSUME IInv, NEW c \in Calls, NEW t, Become(c, t), Good(t), UNCHANGED <<others, registry>>
  PROVE  IInv'
<1>1. Shared /\ UNCHANGED <<settings, absent, trainings, faults, disk, trainer>>
      BY Split DEF others, fixed
<1>2. Shared'
      BY <1>1, SameShared DEF Shared
<1>3. QED  BY <1>1, <1>2, OneThread

\* A request that begins is held at the gate, or may be answered.
LEMMA AskInv ==
  ASSUME IInv, NEW c \in Calls, NEW r \in Requests, Ask(c, r)
  PROVE  IInv'
<1> DEFINE mode == RolloutFor(r.org)
           p == IF settings.production /\ mode = "ML_ASSISTED" THEN "gate" ELSE "try"
           t == [Idle EXCEPT !.pc = p, !.request = r, !.mode = mode]
<1>1. mode \in Modes
      BY RolloutType
<1>2. /\ p \in {"gate", "try"}
      /\ p = "gate" => settings.production /\ mode = "ML_ASSISTED"
      /\ p = "try" => ~(settings.production /\ mode = "ML_ASSISTED")
      OBVIOUS
<1>3. mode = RolloutFor(r.org)
      OBVIOUS
<1>4. Become(c, t)
      BY DEF Ask
<1>5. t = [Idle EXCEPT !.pc = p, !.request = r, !.mode = mode]
      OBVIOUS
<1> HIDE DEF mode, p, t
<1>6. NoModels \in Models /\ \A s \in Segments : NoModels[s] = "none"
      BY DEF NoModels, Models, ModelKinds
<1>7. t = [pc |-> p, request |-> r, mode |-> mode, back |-> "try", own |-> NoModels,
           next |-> 1, answer |-> NoAnswer, model |-> "none", row |-> NoAnswer]
      BY <1>5 DEF Idle
<1>8. t \in Thread
      BY <1>1, <1>2, <1>6, <1>7 DEF Thread, ModelKinds
<1>9. ModeOf(t)
      BY <1>2, <1>3, <1>7 DEF ModeOf
<1>10. BuildOf(t) /\ TrustedOf(t)
       BY <1>2, <1>6, <1>7 DEF BuildOf, TrustedOf
<1>11. Good(t)
       BY <1>2, <1>7, <1>8, <1>9, <1>10 DEF Good, ErrorOf
<1>12. QED  BY <1>4, <1>11, QuietInv DEF Ask

\* Leaving a missing segment out, and training it.
LEMMA LoadInv ==
  ASSUME IInv, NEW c \in Calls,
         LoadSegment(c) \/ SkipSegment(c) \/ TrainSegment(c) \/ LoadFails(c)
  PROVE  IInv'
<1> DEFINE t == call[c]
<1>1. /\ Shared /\ Good(t) /\ t.pc = "load" /\ t.next <= Len(SEGMENTS)
      /\ UNCHANGED <<others, registry>>
      BY Split DEF LoadSegment, SkipSegment, TrainSegment, LoadFails, Loading
<1>2. Current(c) = SEGMENTS[t.next] /\ Current(c) \in Segments
      BY <1>1, SegmentOfPlace DEF Current, Good, Thread
<1>3. CASE LoadSegment(c)
  <2>1. Good(Keep(c, "loaded"))
        BY <1>1, KeepGood DEF Keep, Current
  <2>2. QED  BY <1>1, <1>3, <2>1, QuietInv DEF LoadSegment
<1>4. CASE SkipSegment(c)
  <2>1. SEGMENTS[t.next] \in absent /\ ~MayTrain
        BY <1>1, <1>2, <1>4 DEF SkipSegment, Shared, MissingInv, Missing
  <2>2. Good(Keep(c, "none"))
        BY <1>1, <2>1, KeepGood DEF Keep, Current
  <2>3. QED  BY <1>1, <1>4, <2>2, QuietInv DEF SkipSegment
<1>5. CASE TrainSegment(c)
  <2>1. Good([t EXCEPT !.pc = "train"])
        BY <1>1, <1>5, TrainGood DEF TrainSegment
  <2>2. QED  BY <1>1, <1>5, <2>1, QuietInv DEF TrainSegment
<1>6. CASE LoadFails(c)
  <2>1. Good(Failed(c))
        BY <1>1, FailedGood
  <2>2. QED  BY <1>1, <1>6, <2>1, QuietInv DEF LoadFails
<1>7. QED  BY <1>3, <1>4, <1>5, <1>6

\* A file is opened and made whole, or left as it was or torn, by a request that
\* may train.
LEMMA SaveInv ==
  ASSUME IInv, NEW c \in Calls,
         OpenFile(c) \/ SaveSegment(c) \/ OpenFails(c) \/ SaveFails(c)
  PROVE  IInv'
<1> DEFINE t == call[c]
<1>1. Shared /\ Good(t) /\ t \in Thread /\ t.pc \in {"train", "save"}
      BY Split DEF OpenFile, SaveSegment, OpenFails, SaveFails, Good
<1>2. MayTrain /\ t.next <= Len(SEGMENTS)
      BY <1>1 DEF Good, BuildOf
<1>3. Current(c) = SEGMENTS[t.next] /\ Current(c) \in Segments
      BY <1>1, <1>2, SegmentOfPlace DEF Current, Thread
<1>4. CASE OpenFile(c)
  <2>1. /\ disk' = [disk EXCEPT ![Current(c)] = c] /\ t.pc = "train"
        /\ Become(c, [t EXCEPT !.pc = "save"])
        /\ UNCHANGED <<settings, absent, trainings, faults, trainer, registry>>
        BY <1>4 DEF OpenFile, fixed
  <2>2. disk \in [Segments -> {"missing", "whole", "torn", "trainer"} \cup Calls]
        BY <1>1 DEF Shared
  <2>3. disk' \in [Segments -> {"missing", "whole", "torn", "trainer"} \cup Calls]
        BY <2>1, <2>2
  <2>4. \A s \in Segments : disk'[s] = "missing" => disk[s] = "missing"
        BY <2>1, <2>2, ParameterAssumption
  <2>5. Shared'
        BY <1>1, <1>2, <2>1, <2>3, <2>4, DiskInv DEF Shared
  <2>6. Good([t EXCEPT !.pc = "save"])
        BY <1>1, <1>2, <2>1, TrainGood
  <2>7. QED  BY <2>1, <2>5, <2>6, OneThread
<1>5. CASE SaveSegment(c)
  <2>1. /\ Written(Current(c), c) /\ Become(c, Keep(c, "trained")) /\ t.pc = "save"
        /\ UNCHANGED <<settings, absent, trainings, faults, trainer, registry>>
        BY <1>5 DEF SaveSegment, fixed
  <2>2. Shared'
        BY <1>1, <1>3, <2>1, WrittenInv DEF Shared
  <2>3. Good(Keep(c, "trained"))
        BY <1>1, <1>2, <2>1, KeepGood DEF Keep, Current
  <2>4. QED  BY <2>1, <2>2, <2>3, OneThread
<1>6. CASE SaveFails(c)
  <2>1. /\ Abandon({c}) \/ Written(Current(c), c)
        /\ Become(c, Failed(c)) /\ faults' = faults + 1
        /\ UNCHANGED <<settings, absent, trainings, trainer, registry>>
        BY <1>6 DEF SaveFails
  <2>2. Shared'
        BY <1>1, <1>3, <2>1, AbandonInv, WrittenInv DEF Shared
  <2>3. Good(Failed(c))
        BY <1>1, FailedGood
  <2>4. QED  BY <2>1, <2>2, <2>3, OneThread
<1>7. CASE OpenFails(c)
  <2>1. Shared'
        BY <1>1, <1>7, SameShared DEF OpenFails, Shared
  <2>2. Good(Failed(c))
        BY <1>1, FailedGood
  <2>3. QED  BY <1>7, <2>1, <2>2, OneThread DEF OpenFails
<1>8. QED  BY <1>4, <1>5, <1>6, <1>7

\* The registry that is installed is complete.
LEMMA InstallInv ==
  ASSUME IInv, NEW c \in Calls, Install(c)
  PROVE  IInv'
<1> DEFINE t == call[c]
<1>1. /\ Shared /\ Good(t) /\ t \in Thread
      /\ t.pc = "load" /\ t.next > Len(SEGMENTS)
      /\ registry' = t.own /\ Become(c, [t EXCEPT !.pc = t.back])
      /\ UNCHANGED <<settings, absent, trainings, faults, disk, trainer>>
      BY Split DEF Install, others, fixed, Good
<1>2. t.own \in Models /\ t.next \in Nat
      BY <1>1 DEF Thread
<1>3. ASSUME NEW s \in Segments, t.own[s] = "none" PROVE s \in absent /\ ~MayTrain
  <2>1. PICK i \in DOMAIN SEGMENTS : SEGMENTS[i] = s
        BY DEF Segments
  <2>2. i < t.next
        BY <1>1, <1>2, ParameterAssumption
  <2>3. QED  BY <1>1, <1>3, <2>1, <2>2 DEF Good, BuildOf
<1>4. RegistryIsComplete'
      BY <1>1, <1>3 DEF RegistryIsComplete, MayTrain
<1>5. NoSilentTraining'
  <2>1. \A s \in Segments : t.own[s] = "trained" => MayTrain
        BY <1>1 DEF Good, BuildOf
  <2>2. QED  BY <1>1, <2>1, SettingsType DEF NoSilentTraining, Shared
<1>6. Shared'
      BY <1>1, <1>2, <1>4, <1>5 DEF Shared, MissingInv, Missing
<1>7. Good([t EXCEPT !.pc = t.back])
      BY <1>1, InstallGood
<1>8. QED  BY <1>1, <1>6, <1>7, OneThread

\* The gate lets no deployment decide by a model that it holds back.
LEMMA GateInv ==
  ASSUME IInv, NEW c \in Calls, Gate(c)
  PROVE  IInv'
<1> DEFINE t == call[c]
           mode == IF HeldBack THEN "SHADOW" ELSE t.mode
           u == [t EXCEPT !.pc = "try", !.mode = mode]
<1>1. Shared /\ Good(t) /\ t \in Thread /\ t.pc = "gate" /\ Become(c, u)
      BY Split DEF Gate, Good
<1>2. /\ mode \in {t.mode, "SHADOW"}
      /\ settings.developmentOnly => mode = "SHADOW"
      BY DEF HeldBack
<1>3. mode \in Modes
      BY <1>1, <1>2 DEF Thread, Modes
<1>4. u = [t EXCEPT !.pc = "try", !.mode = mode]
      OBVIOUS
<1> HIDE DEF t, mode, u
<1>5. u \in Thread
      BY <1>1, <1>3, <1>4 DEF Thread
<1>6. /\ u.pc = "try" /\ u.mode = mode /\ u.back = t.back /\ u.own = t.own
      /\ u.request = t.request /\ u.answer = t.answer
      /\ u.model = t.model /\ u.row = t.row
      BY <1>1, <1>4 DEF Thread
<1>7. ModeOf(u)
      BY <1>1, <1>2, <1>6 DEF Good, ModeOf
<1>8. BuildOf(u) /\ TrustedOf(u)
      BY <1>1, <1>6 DEF Good, BuildOf, TrustedOf
<1>9. Good(u)
      BY <1>5, <1>6, <1>7, <1>8 DEF Good, ErrorOf
<1>10. QED  BY <1>1, <1>9, QuietInv DEF Gate

\* Prediction, the audit row and the reply.
LEMMA AnswerInv ==
  ASSUME IInv, NEW c \in Calls, Predict(c) \/ Persist(c) \/ Reply(c) \/ OpenRegistry(c)
  PROVE  IInv'
<1> DEFINE t == call[c]
<1>1. Good(t) /\ t \in Thread /\ Shared
      BY Split DEF Good
<1>2. CASE Predict(c)
  <2> DEFINE m == ModelFor(t.request.org)
  <2>1. /\ m \in ModelKinds
        /\ settings.production => m # "trained"
    <3>1. t.request \in Requests /\ registry \in Models
          BY <1>1, <1>2 DEF Predict, Shared, Good, ModeOf
    <3>2. SegmentOf(t.request.org) \in Segments /\ "DEFAULT" \in Segments
          BY <3>1, SegmentAssumption, ParameterAssumption
    <3>3. \E s \in Segments : m = registry[s]
          BY <3>2 DEF ModelFor
    <3>4. QED  BY <1>1, <1>2, <3>1, <3>3 DEF Predict, Shared, NoSilentTraining, Models, ModelKinds
  <2> HIDE DEF m
  <2>2. PICK ml \in Probabilities \cup {NoMl}, model \in ModelKinds :
          /\ Become(c, Answered(c, ml, model))
          /\ settings.production /\ ml # NoMl => model = "loaded"
    <3>1. CASE m # "none" /\ \E p \in Probabilities : Become(c, Answered(c, p, m))
      <4>1. m \in ModelKinds /\ (settings.production => m = "loaded")
            BY <2>1, <3>1 DEF ModelKinds
      <4>2. QED  BY <3>1, <4>1
    <3>2. CASE Become(c, Answered(c, NoMl, "none"))
          BY <3>2 DEF ModelKinds
    <3>3. QED  BY <1>2, <3>1, <3>2 DEF Predict, m
  <2>3. Good(Answered(c, ml, model))
        BY <1>1, <1>2, <2>2, AnsweredGood DEF Predict
  <2>4. QED  BY <1>2, <2>2, <2>3, QuietInv DEF Predict
<1>3. CASE Persist(c)
  <2> DEFINE u == [t EXCEPT !.pc = "reply", !.row = t.answer]
  <2>1. Become(c, u) /\ t.pc = "persist" /\ t.answer \in Answers \cup {NoAnswer}
        BY <1>1, <1>3 DEF Persist, Thread
  <2>2. u \in Thread
        BY <1>1, <2>1 DEF Thread
  <2>3. /\ u.pc = "reply" /\ u.mode = t.mode /\ u.own = t.own
        /\ u.request = t.request /\ u.answer = t.answer /\ u.model = t.model
        BY <1>1 DEF Thread
  <2>4. Good(t)
        BY <1>1
  <2> HIDE DEF t, u
  <2>5. ModeOf(u) /\ BuildOf(u) /\ TrustedOf(u)
        BY <2>1, <2>3, <2>4 DEF Good, ModeOf, BuildOf, TrustedOf
  <2>6. Good(u)
        BY <2>2, <2>3, <2>5 DEF Good, ErrorOf
  <2>7. QED  BY <1>3, <2>1, <2>6, QuietInv DEF Persist
<1>4. CASE Reply(c)
      BY <1>4, IdleIsGood, QuietInv DEF Reply
<1>5. CASE OpenRegistry(c)
  <2>1. Good([t EXCEPT !.pc = "load", !.back = t.pc, !.own = NoModels, !.next = 1])
        BY <1>1, <1>5, OpenGood DEF OpenRegistry
  <2>2. QED  BY <1>5, <2>1, QuietInv DEF OpenRegistry
<1>6. QED  BY <1>2, <1>3, <1>4, <1>5

\* A row that cannot be committed, and a restart, end the requests concerned.
LEMMA FaultInv ==
  ASSUME IInv, (\E c \in Calls : PersistFails(c)) \/ Restart
  PROVE  IInv'
<1>1. Shared
      BY Split
<1>2. ASSUME NEW c \in Calls, PersistFails(c) PROVE IInv'
  <2>1. Shared'
        BY <1>1, <1>2, SameShared DEF PersistFails, Shared
  <2> DEFINE t == call[c]
             u == [t EXCEPT !.pc = "error"]
  <2>2. Good(t) /\ t \in Thread /\ t.pc = "persist" /\ Become(c, u)
        BY <1>2, Split DEF PersistFails, Good
  <2>3. u \in Thread
        BY <2>2 DEF Thread
  <2>4. /\ u.pc = "error" /\ u.mode = t.mode /\ u.own = t.own /\ u.row = t.row
        /\ u.request = t.request /\ u.answer = t.answer /\ u.model = t.model
        BY <2>2 DEF Thread
  <2> HIDE DEF t, u
  <2>5. ModeOf(u) /\ BuildOf(u) /\ TrustedOf(u) /\ ErrorOf(u)
        BY <2>2, <2>4 DEF Good, ModeOf, BuildOf, TrustedOf, ErrorOf
  <2>6. Good(u)
        BY <2>3, <2>4, <2>5 DEF Good
  <2>7. QED  BY <1>2, <2>1, <2>2, <2>6, OneThread DEF PersistFails
<1>3. ASSUME Restart PROVE IInv'
  <2>1. /\ Abandon(Calls) /\ registry' = NoRegistry /\ absent' = Missing
        /\ call' = [c \in Calls |-> Idle] /\ faults' = faults + 1
        /\ UNCHANGED <<settings, trainer, trainings>>
        BY <1>3 DEF Restart
  <2>2. /\ disk' \in [Segments -> {"missing", "whole", "torn", "trainer"} \cup Calls]
        /\ \A s \in Segments : disk'[s] = IF disk[s] \in Calls THEN "torn" ELSE disk[s]
        BY <1>1, <2>1, AbandonFacts
  <2>3. \A s \in Segments : disk'[s] \notin Calls
        BY <2>2, ParameterAssumption
  <2>4. MissingInv'
        BY <2>1, <2>2 DEF MissingInv, Missing
  <2>5. NoSilentTraining' /\ RegistryIsComplete'
        BY <2>1, <2>3 DEF NoSilentTraining, RegistryIsComplete
  <2>6. absent' \subseteq Segments
        BY <2>1 DEF Missing
  <2>7. Shared'
        BY <1>1, <2>1, <2>2, <2>4, <2>5, <2>6 DEF Shared
  <2>8. (call \in [Calls -> Thread])'
        BY <2>1, IdleIsGood
  <2>9. Idle.own \in Models /\ Idle \in Thread /\ Idle.pc = "idle"
        /\ Idle.answer = NoAnswer /\ \A s \in Segments : Idle.own[s] = "none"
        BY IdleIsGood DEF Idle, NoModels, Models, ModelKinds
  <2>10. (\A c \in Calls : Good(call[c]))'
        BY <2>1, <2>9 DEF Good, BuildOf, TrustedOf, ErrorOf
  <2>11. QED  BY <2>7, <2>8, <2>10, JoinNext
<1>4. QED  BY <1>2, <1>3

\* The offline trainer writes files, and touches neither registry nor requests.
LEMMA TrainerInv ==
  ASSUME IInv, TrainerSaves \/ TrainerStops \/ \E s \in Segments : TrainerOpens(s)
  PROVE  IInv'
<1>1. Shared /\ call \in [Calls -> Thread] /\ \A c \in Calls : Good(call[c])
      BY Split
<1>2. UNCHANGED <<settings, absent, registry, call>>
      BY DEF TrainerSaves, TrainerStops, TrainerOpens, fixed
<1>3. ASSUME NEW s \in Segments, TrainerOpens(s) PROVE Shared'
  <2>1. disk \in [Segments -> {"missing", "whole", "torn", "trainer"} \cup Calls]
        BY <1>1 DEF Shared
  <2>2. disk' = [disk EXCEPT ![s] = "trainer"]
        BY <1>3 DEF TrainerOpens
  <2>3. \A q \in Segments : disk'[q] \in {disk[q], "trainer"}
        BY <2>1, <2>2
  <2>4. disk' \in [Segments -> {"missing", "whole", "torn", "trainer"} \cup Calls]
        BY <2>1, <2>2
  <2>5. \A q \in Segments : disk'[q] \in Calls => disk[q] \in Calls
        BY <2>3, ParameterAssumption
  <2>6. QED  BY <1>1, <1>2, <1>3, <2>3, <2>4, <2>5, DiskInv DEF TrainerOpens, Shared
<1>4. ASSUME TrainerSaves PROVE Shared'
  <2>1. trainer \in Segments
        BY <1>1, <1>4 DEF TrainerSaves, Shared
  <2>2. QED  BY <1>1, <1>2, <1>4, <2>1, WrittenInv DEF TrainerSaves, Shared, fixed
<1>5. ASSUME TrainerStops PROVE Shared'
      BY <1>1, <1>2, <1>5, AbandonInv DEF TrainerStops, Shared
<1>6. Shared'
      BY <1>3, <1>4, <1>5
<1>7. ASSUME NEW c \in Calls PROVE Good(call[c])'
      BY <1>1, <1>2, GoodStable
<1>8. (call \in [Calls -> Thread])' /\ (\A c \in Calls : Good(call[c]))'
      BY <1>1, <1>2, <1>7
<1>9. QED  BY <1>6, <1>8, JoinNext

\* Every step keeps the inductive invariant.
LEMMA NextInv == IInv /\ [Next]_vars => IInv'
<1>1. ASSUME IInv, UNCHANGED vars PROVE IInv'
  <2>1. Shared /\ call \in [Calls -> Thread] /\ \A c \in Calls : Good(call[c])
        BY <1>1, Split
  <2>2. Shared'
        BY <1>1, <2>1, SameShared DEF vars, Shared
  <2>3. ASSUME NEW c \in Calls PROVE Good(call[c])'
        BY <1>1, <2>1, GoodStable DEF vars
  <2>4. (call \in [Calls -> Thread])' /\ (\A c \in Calls : Good(call[c]))'
        BY <1>1, <2>1, <2>3 DEF vars
  <2>5. QED  BY <2>2, <2>4, JoinNext
<1>2. ASSUME IInv, Next PROVE IInv'
      BY <1>2, AskInv, LoadInv, SaveInv, InstallInv, GateInv, AnswerInv, FaultInv,
         TrainerInv DEF Next, Handle
<1>3. QED  BY <1>1, <1>2

-----------------------------------------------------------------------------
(* Theorems.                                                                *)

\* Threads, files and the registry agree in every reachable state
\* (citizen_risk_model.py, citizen_risk_policy.py).
THEOREM Inductive == Spec => []IInv
  BY InitInv, NextInv, PTL DEF Spec

\* The rules decide unless a model may (citizen_risk_policy.py:44-46, 76-158).
THEOREM Trusted == Spec => []RulesUnlessTrusted
<1>1. IInv => RulesUnlessTrusted
      BY DEF IInv
<1>2. QED  BY <1>1, Inductive, PTL

\* In production nothing is trained by a request (citizen_risk_model.py:166-173).
THEOREM Training == Spec => []NoSilentTraining
<1>1. IInv => NoSilentTraining
      BY DEF IInv
<1>2. QED  BY <1>1, Inductive, PTL

\* A 500 is an assisted decision in production that met no registry, or a score
\* whose audit row was not committed (citizen_risk_policy.py:67, 80,
\* citizen_risk_service.py:46).
THEOREM Survives == Spec => []ScoringSurvives
<1>1. IInv => ScoringSurvives
      BY DEF IInv
<1>2. QED  BY <1>1, Inductive, PTL

\* An installed registry lacks only what had no file (citizen_risk_model.py:160-199).
THEOREM Complete == Spec => []RegistryIsComplete
<1>1. IInv => RegistryIsComplete
      BY DEF IInv
<1>2. QED  BY <1>1, Inductive, PTL

\* For all features, a riskier citizen never scores lower by the rules
\* (citizen_risk_rules.py:7-40).
THEOREM Monotone == Spec => []RiskierNeverScoresLower
<1>1. IInv => RiskierNeverScoresLower
  <2>1. SUFFICES ASSUME IInv, NEW c \in Calls, NEW d \in Calls, Said(c), Said(d),
                        call[c].answer.source # "ML", call[d].answer.source # "ML",
                        AtLeastAsRisky(call[c].request.features, call[d].request.features)
                 PROVE  call[c].answer.score >= call[d].answer.score
        BY DEF RiskierNeverScoresLower
  <2>2. ASSUME NEW e \in Calls, Said(e), call[e].answer.source # "ML"
        PROVE  /\ call[e].request.features \in Features
               /\ call[e].answer.score = RuleScore(call[e].request.features)
    <3>1. call[e].request \in Requests
          BY <2>1, <2>2 DEF IInv, IdleInv, ModeInv
    <3>2. call[e].request.features \in Features
          BY <3>1, ParameterAssumption
    <3>3. QED  BY <2>1, <2>2, <3>2 DEF IInv, RulesUnlessTrusted
  <2>3. QED  BY <2>1, <2>2, RuleScoreMonotone
<1>2. QED  BY <1>1, Inductive, PTL

=============================================================================
