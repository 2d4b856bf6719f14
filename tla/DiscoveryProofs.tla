--------------------------- MODULE DiscoveryProofs ---------------------------
(***************************************************************************)
(* Theorems about Discovery, for every graph of declarations.               *)
(***************************************************************************)
EXTENDS Discovery, TLAPS

\* What the loops hold that is still to be built by buildDiscovered.  A build
\* that failed keeps its loop's remainder.
Queue == discovered \union (IF phase \in {"discovered", "done"}
                            THEN todo \intersect Decl ELSE {})

-----------------------------------------------------------------------------
(* Type correctness.                                                        *)

LEMMA RespTyped == \A i \in 1..Len(RespOrder) : RespOrder[i] \in RespDecl
  BY DEF RespDecl

LEMMA LenNat == Len(RespOrder) \in Nat
  BY InputAssumption

LEMMA InputIsFixed == [Next]_vars => input' = input
  <1> SUFFICES ASSUME Next PROVE input' = input
    BY DEF vars
  <1> QED
    BY DEF Next, BuildModel, BuildExtraModel, BuildDiscovered, BuildParameters, EndModels,
       TakeExtraModels, EndExtraModels, EndParameters, BuildResponse, DropResponse,
       EndResponses, StartPass, EndDiscovered, Fail, Terminated, vars

LEMMA NextIndex ==
  ASSUME NEW L \in Nat, NEW i \in 1..(L + 1), i <= L
  PROVE  i \in 1..L /\ i + 1 \in 1..(L + 1)
  OBVIOUS

\* The type of the effect of building one node, shared by every build step.
LEMMA BuildTyped ==
  ASSUME TypeOK, NEW n \in Node, n \in Decl => BuildSchema(n),
         n \notin Decl => BuildSection(n)
  PROVE  /\ definitions' \in SUBSET Key
         /\ builds' \in [Node -> Nat]
         /\ extraModels' \in SUBSET Decl
         /\ discovered' \in SUBSET Decl
  <1>1. Discovers(n) \subseteq Decl /\ Registers(n) \subseteq Decl
    BY InputAssumption DEF Discovers, Registers, Node
  <1>2. n \in Decl => DiscriminatedSubtypes(n) \subseteq Decl
    BY DEF DiscriminatedSubtypes, Subtypes, TypeOK
  <1>3. builds[n] + 1 \in Nat
    BY DEF TypeOK
  <1>4. CASE n \in Decl
    BY <1>1, <1>2, <1>3, <1>4, InputAssumption
    DEF BuildSchema, AddDiscoveredModels, TypeOK
  <1>5. CASE n \notin Decl
    BY <1>1, <1>3, <1>5 DEF BuildSection, AddDiscoveredModels, TypeOK
  <1> QED BY <1>4, <1>5

\* Type correctness: every step of Build keeps TypeOK.
THEOREM TypeCorrect == Spec => []TypeOK
  <1>1. Init => TypeOK
    BY InputAssumption, LenNat DEF Init, TypeOK, Phases, Outcomes, Node
  <1>2. TypeOK /\ [Next]_vars => TypeOK'
    <2> SUFFICES ASSUME TypeOK, [Next]_vars PROVE TypeOK'
      OBVIOUS
    <2>0. input' \in Inputs
      BY InputIsFixed DEF TypeOK
    <2> USE <2>0 DEF Phases, Outcomes
    <2>1. ASSUME NEW d \in Decl, BuildModel(d) PROVE TypeOK'
      BY <2>1, BuildTyped DEF BuildModel, TypeOK, Node
    <2>2. ASSUME NEW d \in Decl, BuildExtraModel(d) PROVE TypeOK'
      BY <2>2, BuildTyped DEF BuildExtraModel, TypeOK, Node
    <2>3. ASSUME NEW d \in Decl, BuildDiscovered(d) PROVE TypeOK'
      BY <2>3, BuildTyped DEF BuildDiscovered, TypeOK, Node
    <2>4. ASSUME NEW p \in ParamDecl, BuildParameters(p) PROVE TypeOK'
      BY <2>4, BuildTyped, InputAssumption DEF BuildParameters, TypeOK, Node
    <2>5. CASE EndModels
      BY <2>5 DEF EndModels, TypeOK
    <2>6. CASE TakeExtraModels
      BY <2>6 DEF TakeExtraModels, TypeOK
    <2>7. CASE EndExtraModels
      BY <2>7 DEF EndExtraModels, TypeOK
    <2>8. CASE EndParameters
      BY <2>8 DEF EndParameters, TypeOK
    <2>9. CASE BuildResponse
      <3>1. nextResp \in 1..Len(RespOrder) /\ nextResp + 1 \in 1..(Len(RespOrder) + 1)
        BY <2>9, LenNat, NextIndex DEF BuildResponse, TypeOK
      <3>2. CurrentResp \in RespDecl
        BY <3>1, RespTyped DEF CurrentResp
      <3>3. CurrentResp \in Node /\ CurrentResp \notin Decl
        BY <3>2, InputAssumption DEF Node
      <3> QED BY <2>9, <3>1, <3>2, <3>3, BuildTyped DEF BuildResponse, TypeOK
    <2>10. CASE DropResponse
      BY <2>10, LenNat, NextIndex DEF DropResponse, TypeOK
    <2>11. CASE EndResponses
      BY <2>11 DEF EndResponses, TypeOK
    <2>12. CASE StartPass
      BY <2>12 DEF StartPass, Undefined, TypeOK
    <2>13. CASE EndDiscovered
      BY <2>13 DEF EndDiscovered, TypeOK
    <2>14. ASSUME NEW n \in Node, Fail(n) PROVE TypeOK'
      BY <2>14 DEF Fail, PanicOutcome, TypeOK
    <2>15. CASE UNCHANGED vars
      BY <2>15 DEF vars, TypeOK
    <2> QED
      BY <2>1, <2>2, <2>3, <2>4, <2>5, <2>6, <2>7, <2>8, <2>9, <2>10, <2>11,
         <2>12, <2>13, <2>14, <2>15 DEF Next, Terminated
  <1> QED BY <1>1, <1>2, PTL DEF Spec
-----------------------------------------------------------------------------
(* Nothing a rendered node refers to is ever lost: its key is defined, or a  *)
(* declaration with that key is queued.                                      *)

\* The declarations whose definitions the rendering of n calls for.
Wanted(n) ==
    Discovers(n) \union
    {s \in Annotated : ~ScanModels /\ n \in Discriminated /\ n \in Bases[s]}

IsCovered(d) == \/ DefKey[d] \in definitions
                \/ \E e \in Queue : DefKey[e] = DefKey[d]

Cover == \A n \in Built : \A d \in Wanted(n) : IsCovered(d)

\* Without ScanModels there is no loop over the models.
ModelsFixed == ~ScanModels => models = Annotated /\ phase \notin {"models", "extras"}

\* Build completes with nothing left in any queue.
AtEnd == Complete => phase = "done" /\ discovered = {} /\ todo = {}

CoverInv == Cover /\ ModelsFixed /\ AtEnd

LEMMA WantedTyped == \A n \in Node : Wanted(n) \subseteq Decl
  BY InputAssumption DEF Wanted, Discovers, Node

\* Building n keeps the cover: what n wants is queued, and n leaves the queue
\* only because its key is now defined.
LEMMA BuildCovers ==
  ASSUME TypeOK, Cover, ModelsFixed, NEW n \in Node,
         n \in Decl => BuildSchema(n), n \notin Decl => BuildSection(n),
         phase' = phase, todo' = todo \ {n}, input' = input
  PROVE  Cover'
  <1> SUFFICES ASSUME NEW m \in Built', NEW d \in Wanted(m) PROVE IsCovered(d)'
    BY DEF Cover, Wanted, Discovers, ScanModels
  <1>1. definitions \subseteq definitions' /\ (n \in Decl => DefKey[n] \in definitions')
    BY DEF BuildSchema, BuildSection
  <1>2. discovered \subseteq discovered'
    BY DEF BuildSchema, BuildSection
  <1>3. CASE m = n
    <2>1. CASE d \in Discovers(n)
      <3>1. d \in Queue'
        BY <2>1 DEF BuildSchema, BuildSection, Queue
      <3> QED BY <3>1 DEF IsCovered
    <2>2. CASE d \notin Discovers(n)
      <3>1. d \in Annotated /\ ~ScanModels /\ n \in Discriminated /\ n \in Bases[d]
        BY <1>3, <2>2 DEF Wanted
      <3>2. n \in Decl
        BY <3>1, InputAssumption
      <3>3. IsDiscriminated(n) /\ d \in Subtypes(n)
        BY <3>1 DEF IsDiscriminated, Subtypes, ModelsFixed
      <3>4. DefKey[d] \in definitions' \/ d \in discovered'
        BY <3>1, <3>2, <3>3 DEF BuildSchema, DiscriminatedSubtypes
      <3> QED BY <3>4 DEF IsCovered, Queue
    <2> QED BY <2>1, <2>2
  <1>4. CASE m # n
    <2>1. m \in Built
      BY <1>4 DEF Built, BuildSchema, BuildSection, TypeOK
    <2>2. IsCovered(d)
      BY <2>1 DEF Cover
    <2>3. CASE DefKey[d] \in definitions
      BY <1>1, <2>3 DEF IsCovered
    <2>4. ASSUME NEW e \in Queue, DefKey[e] = DefKey[d] PROVE IsCovered(d)'
      <3>1. CASE e = n /\ n \in Decl
        BY <1>1, <2>4, <3>1 DEF IsCovered
      <3>2. CASE e # n
        BY <1>2, <2>4, <3>2 DEF IsCovered, Queue
      <3>3. e \in Decl
        BY <2>4 DEF Queue, TypeOK
      <3> QED BY <3>1, <3>2, <3>3
    <2> QED BY <2>2, <2>3, <2>4 DEF IsCovered
  <1> QED BY <1>3, <1>4

\* A step that builds nothing and keeps every queued declaration.
LEMMA QueueCovers ==
  ASSUME Cover, UNCHANGED <<input, builds, definitions>>, Queue \subseteq Queue'
  PROVE  Cover'
  BY DEF Cover, Built, Wanted, Discovers, IsCovered, ScanModels

LEMMA CoverInvariant == Spec => []CoverInv
  <1>1. Init => CoverInv
    BY InputAssumption DEF Init, CoverInv, Cover, ModelsFixed, AtEnd, Complete, Built
  <1>2. TypeOK /\ CoverInv /\ [Next]_vars => CoverInv'
    <2> SUFFICES ASSUME TypeOK, CoverInv, [Next]_vars PROVE CoverInv'
      OBVIOUS
    <2>0. input' = input
      BY InputIsFixed
    <2> USE <2>0 DEF CoverInv, ScanModels
    <2>1. ASSUME NEW d \in Decl, BuildModel(d) PROVE CoverInv'
      <3>1. Cover'
        BY <2>1, BuildCovers DEF BuildModel, Node
      <3> QED BY <2>1, <3>1 DEF BuildModel, ModelsFixed, AtEnd, Complete
    <2>2. ASSUME NEW d \in Decl, BuildExtraModel(d) PROVE CoverInv'
      <3>1. Cover'
        BY <2>2, BuildCovers DEF BuildExtraModel, Node
      <3> QED BY <2>2, <3>1 DEF BuildExtraModel, ModelsFixed, AtEnd, Complete
    <2>3. ASSUME NEW d \in Decl, BuildDiscovered(d) PROVE CoverInv'
      <3>1. Cover'
        BY <2>3, BuildCovers DEF BuildDiscovered, Node
      <3> QED BY <2>3, <3>1 DEF BuildDiscovered, ModelsFixed, AtEnd, Complete
    <2>4. ASSUME NEW p \in ParamDecl, BuildParameters(p) PROVE CoverInv'
      <3>1. p \in Node /\ p \notin Decl
        BY InputAssumption DEF Node
      <3>2. Cover'
        BY <2>4, <3>1, BuildCovers DEF BuildParameters
      <3> QED BY <2>4, <3>2 DEF BuildParameters, ModelsFixed, AtEnd, Complete
    <2>5. CASE EndModels
      <3>1. Cover'
        BY <2>5, QueueCovers DEF EndModels, Queue
      <3> QED BY <2>5, <3>1 DEF EndModels, ModelsFixed, AtEnd, Complete
    <2>6. CASE TakeExtraModels
      <3>1. Cover'
        BY <2>6, QueueCovers DEF TakeExtraModels, Queue
      <3> QED BY <2>6, <3>1 DEF TakeExtraModels, ModelsFixed, AtEnd, Complete
    <2>7. CASE EndExtraModels
      <3>1. Cover'
        BY <2>7, QueueCovers DEF EndExtraModels, Queue
      <3> QED BY <2>7, <3>1 DEF EndExtraModels, ModelsFixed, AtEnd, Complete
    <2>8. CASE EndParameters
      <3>1. Cover'
        BY <2>8, QueueCovers DEF EndParameters, Queue
      <3> QED BY <2>8, <3>1 DEF EndParameters, ModelsFixed, AtEnd, Complete
    <2>9. CASE BuildResponse
      <3>1. CurrentResp \in Node /\ CurrentResp \notin Decl \union ParamDecl
        BY <2>9, LenNat, NextIndex, RespTyped, InputAssumption
        DEF BuildResponse, CurrentResp, Node, TypeOK
      <3>2. todo \ {CurrentResp} = todo
        BY <3>1 DEF TypeOK
      <3>3. Cover'
        BY <2>9, <3>1, <3>2, BuildCovers DEF BuildResponse
      <3> QED BY <2>9, <3>3 DEF BuildResponse, ModelsFixed, AtEnd, Complete
    <2>10. CASE DropResponse
      <3>1. Cover'
        BY <2>10, QueueCovers DEF DropResponse, Queue
      <3> QED BY <2>10, <3>1 DEF DropResponse, ModelsFixed, AtEnd, Complete
    <2>11. CASE EndResponses
      <3>1. Cover'
        BY <2>11, QueueCovers DEF EndResponses, Queue
      <3> QED BY <2>11, <3>1 DEF EndResponses, ModelsFixed, AtEnd, Complete
    <2>12. CASE StartPass
      <3>1. PICK q \in SUBSET Undefined : IsQueue(q) /\ todo' = q
        BY <2>12 DEF StartPass
      <3>2. ASSUME NEW n \in Built, NEW d \in Wanted(n) PROVE IsCovered(d)'
        <4>1. CASE DefKey[d] \in definitions
          BY <2>12, <4>1 DEF StartPass, IsCovered
        <4>2. ASSUME NEW e \in Queue, DefKey[e] = DefKey[d],
                     DefKey[d] \notin definitions
              PROVE  IsCovered(d)'
          <5>1. e \in Undefined
            BY <2>12, <4>2 DEF StartPass, Queue, Undefined
          <5>2. PICK f \in q : DefKey[f] = DefKey[e]
            BY <3>1, <5>1 DEF IsQueue
          <5>3. f \in Queue'
            BY <2>12, <3>1, <5>2 DEF StartPass, Queue, Undefined, TypeOK
          <5> QED BY <4>2, <5>2, <5>3 DEF IsCovered
        <4> QED BY <4>1, <4>2 DEF Cover, IsCovered
      <3>3. Cover'
        BY <2>12, <3>2 DEF StartPass, Cover, Built, Wanted, Discovers
      <3> QED BY <2>12, <3>3 DEF StartPass, ModelsFixed, AtEnd, Complete
    <2>13. CASE EndDiscovered
      <3>1. Cover'
        BY <2>13, QueueCovers DEF EndDiscovered, Queue
      <3> QED BY <2>13, <3>1 DEF EndDiscovered, ModelsFixed, AtEnd, Complete
    <2>14. ASSUME NEW n \in Node, Fail(n), phase # "done" PROVE CoverInv'
      <3>1. Cover'
        BY <2>14, QueueCovers DEF Fail, Queue
      <3>2. outcome' # "complete"
        BY <2>14 DEF Fail, PanicOutcome
      <3> QED BY <2>14, <3>1, <3>2 DEF Fail, ModelsFixed, AtEnd, Complete
    <2>15. CASE UNCHANGED vars
      <3>1. Cover'
        BY <2>15, QueueCovers DEF vars, Queue
      <3> QED BY <2>15, <3>1 DEF vars, ModelsFixed, AtEnd, Complete
    <2> QED
      BY <2>1, <2>2, <2>3, <2>4, <2>5, <2>6, <2>7, <2>8, <2>9, <2>10, <2>11,
         <2>12, <2>13, <2>14, <2>15 DEF Next, Terminated
  <1> QED BY <1>1, <1>2, TypeCorrect, PTL DEF Spec

\* No dangling key: when Build completes, the key of every declaration that a
\* rendered node refers to is in the definitions map.
THEOREM NoDanglingKey == Spec => []RefKeysAreDefined
  <1>1. CoverInv => RefKeysAreDefined
    <2> SUFFICES ASSUME CoverInv, Complete, NEW n \in Built, NEW d \in Refs[n]
                 PROVE  DefKey[d] \in definitions
      BY DEF RefKeysAreDefined
    <2>1. d \in Wanted(n)
      BY DEF Wanted, Discovers
    <2>2. Queue = {}
      BY DEF CoverInv, AtEnd, Queue
    <2> QED BY <2>1, <2>2 DEF CoverInv, Cover, IsCovered
  <1> QED BY <1>1, CoverInvariant, PTL
-----------------------------------------------------------------------------
(* No declaration is built twice: what a loop still holds was not built, and  *)
(* what was built has its key defined, so that no later pass queues it.       *)

Early == phase \in {"models", "extras"}

Fresh ==
    /\ BuiltAtMostOnce
    /\ \A d \in Decl : builds[d] > 0 => DefKey[d] \in definitions
    /\ phase # "done" => \A n \in todo : builds[n] = 0
    /\ Early => /\ \A p \in ParamDecl : builds[p] = 0
                /\ todo \subseteq models
                /\ \A d \in Decl : builds[d] > 0 => d \in models
    /\ phase = "parameters" => todo \subseteq ParamDecl
    /\ phase = "responses" => todo = {}
    /\ phase = "discovered" =>
         /\ \A d \in todo : d \in Decl /\ DefKey[d] \notin definitions
         /\ \A d, e \in todo : DefKey[d] = DefKey[e] => d = e
    /\ models \intersect extraModels = {}
    /\ \A i \in nextResp..Len(RespOrder) : builds[RespOrder[i]] = 0

\* What building a node changes, whatever the node.
LEMMA BuildCounts ==
  ASSUME TypeOK, NEW n \in Node, n \in Decl => BuildSchema(n), n \notin Decl => BuildSection(n)
  PROVE  /\ builds' = [builds EXCEPT ![n] = @ + 1]
         /\ builds'[n] = builds[n] + 1
         /\ \A m \in Node : m # n => builds'[m] = builds[m]
         /\ definitions' = definitions \union (IF n \in Decl THEN {DefKey[n]} ELSE {})
         /\ extraModels' = extraModels \union (Registers(n) \ models)
         /\ discovered \union Discovers(n) \subseteq discovered'
  BY DEF BuildSchema, BuildSection, AddDiscoveredModels, TypeOK

\* A response that is still to come is no other node.
LEMMA ResponsesApart ==
  ASSUME TypeOK, NEW i \in nextResp..Len(RespOrder)
  PROVE  /\ i \in 1..Len(RespOrder) /\ RespOrder[i] \in RespDecl /\ RespOrder[i] \in Node
         /\ RespOrder[i] \notin Decl \union ParamDecl
         /\ \A j \in 1..Len(RespOrder) : RespOrder[i] = RespOrder[j] => i = j
  <1>1. i \in 1..Len(RespOrder)
    BY LenNat DEF TypeOK
  <1> QED BY <1>1, RespTyped, InputAssumption DEF Node

\* Building what the loop holds keeps Fresh.
LEMMA BuildFresh ==
  ASSUME TypeOK, Fresh, NEW n \in todo, n \in Decl => BuildSchema(n), n \notin Decl => BuildSection(n),
         phase # "done", phase' = phase, todo' = todo \ {n}, UNCHANGED <<input, models, nextResp>>
  PROVE  Fresh'
  <1>0. n \in Node /\ n \in Decl \union ParamDecl /\ builds[n] = 0
    BY DEF TypeOK, Fresh, Node
  <1>1. /\ builds'[n] = 1
        /\ \A m \in Node : m # n => builds'[m] = builds[m]
        /\ definitions' = definitions \union (IF n \in Decl THEN {DefKey[n]} ELSE {})
        /\ extraModels' = extraModels \union (Registers(n) \ models)
    BY <1>0, BuildCounts DEF TypeOK
  <1>2. BuiltAtMostOnce'
    BY <1>1 DEF Fresh, BuiltAtMostOnce
  <1>3. \A d \in Decl : builds'[d] > 0 => DefKey[d] \in definitions'
    BY <1>1 DEF Fresh, Node
  <1>4. \A m \in todo' : builds'[m] = 0
    BY <1>1 DEF Fresh, TypeOK, Node
  <1>5. Early' => /\ \A p \in ParamDecl : builds'[p] = 0
                  /\ todo' \subseteq models'
                  /\ \A d \in Decl : builds'[d] > 0 => d \in models'
    <2> SUFFICES ASSUME Early
                 PROVE  /\ \A p \in ParamDecl : builds'[p] = 0
                        /\ todo \subseteq models
                        /\ \A d \in Decl : builds'[d] > 0 => d \in models
      BY DEF Early
    <2>1. n \in models /\ n \in Decl
      BY DEF Fresh, TypeOK
    <2>2. \A p \in ParamDecl : p # n /\ p \in Node
      BY <2>1, InputAssumption DEF Node
    <2> QED BY <1>1, <2>1, <2>2 DEF Fresh, Node
  <1>6. (phase' = "parameters" => todo' \subseteq ParamDecl) /\ (phase' = "responses" => todo' = {})
    BY DEF Fresh
  <1>7. phase' = "discovered" =>
          /\ \A d \in todo' : d \in Decl /\ DefKey[d] \notin definitions'
          /\ \A d, e \in todo' : DefKey[d] = DefKey[e] => d = e
    BY <1>1 DEF Fresh
  <1>8. models' \intersect extraModels' = {}
    BY <1>1 DEF Fresh
  <1>9. \A i \in nextResp'..Len(RespOrder) : builds'[RespOrder[i]] = 0
    BY <1>0, <1>1, ResponsesApart DEF Fresh
  <1> QED BY <1>2, <1>3, <1>4, <1>5, <1>6, <1>7, <1>8, <1>9 DEF Fresh

LEMMA FreshInvariant == Spec => []Fresh
  <1>1. Init => Fresh
    BY LenNat, RespTyped, InputAssumption
    DEF Init, Fresh, BuiltAtMostOnce, Early, Node, ScanModels
  <1>2. TypeOK /\ Fresh /\ [Next]_vars => Fresh'
    <2> SUFFICES ASSUME TypeOK, Fresh, [Next]_vars PROVE Fresh'
      OBVIOUS
    <2>0. input' = input
      BY InputIsFixed
    <2>1. ASSUME NEW d \in Decl, BuildModel(d) PROVE Fresh'
      BY <2>1, BuildFresh DEF BuildModel
    <2>2. ASSUME NEW d \in Decl, BuildExtraModel(d) PROVE Fresh'
      BY <2>2, BuildFresh DEF BuildExtraModel
    <2>3. ASSUME NEW d \in Decl, BuildDiscovered(d) PROVE Fresh'
      BY <2>3, BuildFresh DEF BuildDiscovered
    <2>4. ASSUME NEW p \in ParamDecl, BuildParameters(p) PROVE Fresh'
      <3>1. p \notin Decl
        BY InputAssumption
      <3> QED BY <2>4, <3>1, BuildFresh DEF BuildParameters
    <2>5. CASE EndModels
      BY <2>5 DEF EndModels, Fresh, Early, BuiltAtMostOnce
    <2>6. CASE TakeExtraModels
      <3>1. \A d \in extraModels : d \in Decl /\ builds[d] = 0
        <4> SUFFICES ASSUME NEW d \in extraModels PROVE d \in Decl /\ builds[d] = 0
          OBVIOUS
        <4>1. d \in Decl /\ d \notin models
          BY DEF Fresh, TypeOK
        <4>2. ~(builds[d] > 0) /\ builds[d] \in Nat
          BY <2>6, <4>1 DEF TakeExtraModels, Fresh, Early, TypeOK, Node
        <4> QED BY <4>1, <4>2
      <3> QED BY <2>6, <3>1 DEF TakeExtraModels, Fresh, Early, BuiltAtMostOnce
    <2>7. CASE EndExtraModels
      BY <2>7, InputAssumption DEF EndExtraModels, Fresh, Early, BuiltAtMostOnce
    <2>8. CASE EndParameters
      BY <2>8 DEF EndParameters, Fresh, Early, BuiltAtMostOnce
    <2>9. CASE BuildResponse
      <3> DEFINE r == CurrentResp
      <3>0. nextResp \in nextResp..Len(RespOrder) /\ nextResp \in Nat
        BY <2>9, LenNat DEF BuildResponse, TypeOK
      <3>1. /\ r \in Node /\ r \notin Decl \union ParamDecl /\ builds[r] = 0
            /\ \A i \in nextResp + 1 .. Len(RespOrder) : RespOrder[i] # r /\ i \in nextResp..Len(RespOrder)
        BY <3>0, ResponsesApart, LenNat DEF CurrentResp, Fresh
      <3>2. /\ builds'[r] = 1
            /\ \A m \in Node : m # r => builds'[m] = builds[m]
            /\ definitions' = definitions
            /\ extraModels' = extraModels \union (Registers(r) \ models)
        <4>1. BuildSection(r)
          BY <2>9 DEF BuildResponse
        <4> HIDE DEF r
        <4>2. /\ builds'[r] = builds[r] + 1
              /\ \A m \in Node : m # r => builds'[m] = builds[m]
              /\ extraModels' = extraModels \union (Registers(r) \ models)
          BY <3>1, <4>1, BuildCounts
        <4>3. definitions' = definitions
          BY <4>1 DEF BuildSection
        <4> QED BY <3>1, <4>2, <4>3
      <3>3. UNCHANGED <<phase, todo, models>> /\ nextResp' = nextResp + 1 /\ phase = "responses"
        BY <2>9 DEF BuildResponse
      <3> HIDE DEF r
      <3>4. BuiltAtMostOnce'
        BY <3>2 DEF Fresh, BuiltAtMostOnce
      <3>5. \A d \in Decl : builds'[d] > 0 => DefKey[d] \in definitions'
        BY <3>1, <3>2 DEF Fresh, Node
      <3>6. \A m \in todo' : builds'[m] = 0
        BY <3>1, <3>2, <3>3 DEF Fresh, TypeOK, Node
      <3>7. \A i \in nextResp'..Len(RespOrder) : builds'[RespOrder[i]] = 0
        <4> SUFFICES ASSUME NEW i \in nextResp + 1 .. Len(RespOrder) PROVE builds'[RespOrder[i]] = 0
          BY <3>3
        <4>1. RespOrder[i] # r /\ i \in nextResp..Len(RespOrder)
          BY <3>1
        <4>2. RespOrder[i] \in Node /\ builds[RespOrder[i]] = 0
          BY <4>1, ResponsesApart DEF Fresh
        <4> QED BY <3>2, <4>1, <4>2
      <3> QED BY <3>2, <3>3, <3>4, <3>5, <3>6, <3>7 DEF Fresh, Early
    <2>10. CASE DropResponse
      <3>1. \A i \in nextResp'..Len(RespOrder) : i \in nextResp..Len(RespOrder)
        BY <2>10, LenNat DEF DropResponse, TypeOK
      <3> QED BY <2>10, <3>1 DEF DropResponse, Fresh, Early, BuiltAtMostOnce
    <2>11. CASE EndResponses
      BY <2>11 DEF EndResponses, Fresh, Early, BuiltAtMostOnce
    <2>12. CASE StartPass
      <3>1. PICK q \in SUBSET Undefined : IsQueue(q) /\ todo' = q
        BY <2>12 DEF StartPass
      <3>2. \A d \in q : d \in Decl /\ DefKey[d] \notin definitions /\ builds[d] = 0
        <4> SUFFICES ASSUME NEW d \in q PROVE d \in Decl /\ DefKey[d] \notin definitions /\ builds[d] = 0
          OBVIOUS
        <4>1. d \in Decl /\ DefKey[d] \notin definitions
          BY DEF Undefined, TypeOK
        <4> QED BY <4>1 DEF Fresh, TypeOK, Node
      <3>3. \A d, e \in q : DefKey[d] = DefKey[e] => d = e
        BY <3>1 DEF IsQueue
      <3> QED BY <2>12, <3>1, <3>2, <3>3 DEF StartPass, Fresh, Early, BuiltAtMostOnce
    <2>13. CASE EndDiscovered
      BY <2>13 DEF EndDiscovered, Fresh, Early, BuiltAtMostOnce
    <2>14. ASSUME NEW n \in Node, Fail(n), phase # "done" PROVE Fresh'
      BY <2>14 DEF Fail, Fresh, Early, BuiltAtMostOnce
    <2>15. CASE UNCHANGED vars
      BY <2>15 DEF vars, Fresh, Early, BuiltAtMostOnce
    <2> QED
      BY <2>1, <2>2, <2>3, <2>4, <2>5, <2>6, <2>7, <2>8, <2>9, <2>10, <2>11,
         <2>12, <2>13, <2>14, <2>15 DEF Next, Terminated
  <1> QED BY <1>1, <1>2, TypeCorrect, PTL DEF Spec

\* Nothing is built twice, even when declarations share a key.
THEOREM BuiltOnce == Spec => []BuiltAtMostOnce
  <1>1. Fresh => BuiltAtMostOnce
    BY DEF Fresh
  <1> QED BY <1>1, FreshInvariant, PTL
-----------------------------------------------------------------------------
(* Exactly the needed declarations are emitted, where no two share a key (then *)
(* a reference to one leads to the other, and it is not emitted).             *)

KeysAreUnique == \A d, e \in Decl : DefKey[d] = DefKey[e] => d = e

\* What the annotated models embed, transitively.
Roots == {d \in Decl : \A E \in SUBSET Decl : IsEmbedClosed(E) => d \in E}

\* Responses whose turn has been.
Past(r) == \E i \in 1..Len(RespOrder) : i < nextResp /\ r = RespOrder[i]

\* Nothing is built, queued or taken that is not needed.
Justified ==
    /\ Emitted \subseteq Needed
    /\ \A d \in discovered : d \in Needed \/ Pinned(d)
    /\ phase # "done" => todo \intersect Decl \subseteq Needed
    /\ Early => ScanModels /\ models \union extraModels \subseteq Roots
    /\ scanned = {RespName[r] : r \in {s \in RespDecl : Past(s)}}
    /\ \A n \in Built : Sound(n)
    /\ phase # "done" <=> outcome = "running"
    /\ outcome \notin {"running", "complete"} => \E n \in Sections \union Needed : ~Sound(n)

\* Nothing that is needed is passed over: what a loop has behind it is built.
Progress ==
    /\ definitions = Overlay \union {DefKey[d] : d \in Emitted}
    /\ Annotated \subseteq models
    /\ Early => models \subseteq Built \union todo
    /\ Early /\ phase = "models" => models = Annotated
    /\ ScanModels /\ (phase # "done" \/ Complete) =>
         \A d \in models \intersect Built :
             Registers(d) \subseteq models \union (IF Early THEN extraModels ELSE {})
    /\ ScanModels /\ ~Early /\ phase # "done" => models \subseteq Built
    /\ phase = "parameters" => ParamDecl \subseteq Built \union todo
    /\ phase \in {"responses", "discovered"} => ParamDecl \subseteq Built
    /\ \A r \in KeptResp : Past(r) => r \in Built
    /\ phase = "discovered" => nextResp > Len(RespOrder)
    /\ Complete => ParamDecl \subseteq Built /\ nextResp > Len(RespOrder)
                   /\ (ScanModels => models \subseteq Built)

NeededInv == TypeOK /\ CoverInv /\ Fresh /\ Justified /\ Progress

LEMMA NeededMeans ==
  ASSUME TypeOK
  PROVE  /\ ScanModels \in BOOLEAN
         /\ Needed = {d \in Decl : \A F \in SUBSET Decl : IsClosed(ScanModels, F) => d \in F}
  <1>1. ScanModels \in BOOLEAN
    BY InputAssumption DEF TypeOK, ScanModels
  <1> QED BY <1>1 DEF Needed, NeededDecls

LEMMA RootsClosed ==
  /\ Annotated \subseteq Roots
  /\ \A d \in Roots : Registers(d) \subseteq Roots
  <1>1. Annotated \subseteq Roots
    BY InputAssumption DEF Roots, IsEmbedClosed
  <1>2. ASSUME NEW d \in Roots PROVE Registers(d) \subseteq Roots
    <2>1. d \in Decl /\ Registers(d) \subseteq Decl
      BY InputAssumption DEF Roots, Registers, Node
    <2> SUFFICES ASSUME NEW e \in Registers(d), NEW E \in SUBSET Decl, IsEmbedClosed(E) PROVE e \in E
      BY <2>1 DEF Roots
    <2>2. d \in E
      BY DEF Roots
    <2> QED BY <2>2 DEF IsEmbedClosed
  <1> QED BY <1>1, <1>2

\* What is needed is closed in its turn.
LEMMA NeededCloses ==
  ASSUME TypeOK
  PROVE  /\ Needed \subseteq Decl
         /\ ScanModels => Roots \subseteq Needed
         /\ \A n \in Sections \union Needed : \A d \in Discovers(n) : d \in Needed \/ Pinned(d)
         /\ ~ScanModels => \A d \in Needed \intersect Discriminated : \A s \in Annotated :
                             d \in Bases[s] => s \in Needed \/ Pinned(s)
  <1> DEFINE closed == {F \in SUBSET Decl : IsClosed(ScanModels, F)}
  <1>1. Needed = {d \in Decl : \A F \in closed : d \in F}
    BY NeededMeans
  <1>2. ScanModels => Roots \subseteq Needed
    <2> SUFFICES ASSUME ScanModels, NEW d \in Roots, NEW F \in closed PROVE d \in F
      BY <1>1 DEF Roots
    <2>1. PICK E \in SUBSET F : IsEmbedClosed(E)
      BY DEF IsClosed
    <2> QED BY <2>1 DEF Roots
  <1>3. ASSUME NEW n \in Sections \union Needed, NEW d \in Discovers(n), ~Pinned(d) PROVE d \in Needed
    <2>1. n \in Node
      BY <1>1 DEF Sections, KeptResp, RespDecl, Node
    <2>2. d \in Decl
      BY <2>1, WantedTyped DEF Wanted
    <2> SUFFICES ASSUME NEW F \in closed PROVE d \in F
      BY <1>1, <2>2
    <2>3. n \in Sections \union F
      BY <1>1
    <2> QED BY <1>3, <2>3 DEF IsClosed
  <1>4. ASSUME ~ScanModels, NEW d \in Needed \intersect Discriminated, NEW s \in Annotated,
               d \in Bases[s], ~Pinned(s)
        PROVE  s \in Needed
    <2> SUFFICES ASSUME NEW F \in closed PROVE s \in F
      BY <1>1, InputAssumption
    <2>1. d \in F \intersect Discriminated
      BY <1>1
    <2> QED BY <1>4, <2>1 DEF IsClosed
  <1> QED BY <1>1, <1>2, <1>3, <1>4

\* What building a needed node queues is needed, or supplied.
LEMMA QueuedIsNeeded ==
  ASSUME KeysAreUnique, NeededInv, NEW n \in Sections \union Needed,
         n \in Decl => BuildSchema(n), n \notin Decl => BuildSection(n)
  PROVE  \A d \in discovered' : d \in Needed \/ Pinned(d)
  <1> SUFFICES ASSUME NEW d \in discovered' PROVE d \in Needed \/ Pinned(d)
    OBVIOUS
  <1>1. CASE d \in discovered
    BY <1>1 DEF NeededInv, Justified
  <1>2. CASE d \in Discovers(n)
    BY <1>2, NeededCloses DEF NeededInv
  <1>3. CASE n \in Decl /\ d \in DiscriminatedSubtypes(n)
    <2>1. n \in Needed
      BY <1>3, InputAssumption DEF Sections, KeptResp, RespDecl
    <2>2. ~ScanModels /\ d \in models /\ n \in Bases[d] /\ IsDiscriminated(n)
      BY <1>3 DEF DiscriminatedSubtypes, Subtypes
    <2>3. d \in Annotated /\ n \in Discriminated
      BY <1>3, <2>2, InputAssumption DEF NeededInv, CoverInv, ModelsFixed, IsDiscriminated, KeysAreUnique
    <2> QED BY <2>1, <2>2, <2>3, NeededCloses DEF NeededInv
  <1> QED BY <1>1, <1>2, <1>3 DEF BuildSchema, BuildSection

\* The two halves together, for the step that builds a node out of todo.
LEMMA BuildJustified ==
  ASSUME KeysAreUnique, NeededInv, NEW n \in todo, n \in Sections \union Needed, Sound(n),
         n \in Decl => BuildSchema(n), n \notin Decl => BuildSection(n),
         phase # "done", phase' = phase, todo' = todo \ {n},
         UNCHANGED <<input, models, nextResp, scanned, outcome>>
  PROVE  Justified'
  <1>0. n \in Node /\ Needed' = Needed /\ ScanModels' = ScanModels
    BY DEF NeededInv, TypeOK, Node, Needed, ScanModels
  <1>1. /\ Built' = Built \union {n}
        /\ extraModels' = extraModels \union (Registers(n) \ models)
    <2>1. TypeOK
      BY DEF NeededInv
    <2>2. /\ builds'[n] = builds[n] + 1 /\ builds[n] \in Nat
          /\ \A m \in Node : m # n => builds'[m] = builds[m]
          /\ extraModels' = extraModels \union (Registers(n) \ models)
      BY <1>0, <2>1, BuildCounts DEF TypeOK
    <2> QED BY <1>0, <2>2 DEF Built
  <1>2. Emitted' \subseteq Needed'
    <2>1. n \in Decl => n \in Needed
      BY InputAssumption DEF Sections, KeptResp, RespDecl
    <2> QED BY <1>0, <1>1, <2>1 DEF NeededInv, Justified, Emitted
  <1>3. \A d \in discovered' : d \in Needed' \/ Pinned(d)
    BY <1>0, QueuedIsNeeded
  <1>4. todo' \intersect Decl \subseteq Needed'
    BY <1>0 DEF NeededInv, Justified
  <1>5. Early' => ScanModels' /\ models' \union extraModels' \subseteq Roots
    <2> SUFFICES ASSUME Early PROVE ScanModels /\ models \union extraModels' \subseteq Roots
      BY <1>0 DEF Early
    <2>1. n \in Roots
      BY DEF NeededInv, Fresh, Justified
    <2> QED BY <1>1, <2>1, RootsClosed DEF NeededInv, Justified
  <1>6. scanned' = {RespName[r] : r \in {s \in RespDecl : Past(s)'}}
    BY DEF NeededInv, Justified, Past
  <1>7. \A m \in Built' : Sound(m)'
    BY <1>1 DEF NeededInv, Justified, Sound
  <1>8. /\ phase' # "done" <=> outcome' = "running"
        /\ outcome' \notin {"running", "complete"} => \E m \in Sections \union Needed' : ~Sound(m)'
    BY DEF NeededInv, Justified
  <1> QED BY <1>2, <1>3, <1>4, <1>5, <1>6, <1>7, <1>8 DEF Justified

LEMMA BuildProgresses ==
  ASSUME KeysAreUnique, NeededInv, NEW n \in todo,
         n \in Decl => BuildSchema(n), n \notin Decl => BuildSection(n),
         phase # "done", phase' = phase, todo' = todo \ {n},
         UNCHANGED <<input, models, nextResp, scanned, outcome>>
  PROVE  Progress'
  <1>0. n \in Node /\ ScanModels' = ScanModels /\ outcome # "complete"
    BY DEF NeededInv, TypeOK, Node, ScanModels, Justified
  <1>1. /\ Built' = Built \union {n} /\ n \notin Built
        /\ definitions' = definitions \union (IF n \in Decl THEN {DefKey[n]} ELSE {})
        /\ extraModels' = extraModels \union (Registers(n) \ models)
    <2>1. TypeOK
      BY DEF NeededInv
    <2>2. /\ builds'[n] = builds[n] + 1 /\ builds[n] \in Nat /\ builds[n] = 0
          /\ \A m \in Node : m # n => builds'[m] = builds[m]
          /\ definitions' = definitions \union (IF n \in Decl THEN {DefKey[n]} ELSE {})
          /\ extraModels' = extraModels \union (Registers(n) \ models)
      BY <1>0, <2>1, BuildCounts DEF TypeOK, NeededInv, Fresh
    <2> QED BY <1>0, <2>2 DEF Built
  <1>2. definitions' = Overlay \union {DefKey[d] : d \in Emitted'}
    BY <1>1 DEF NeededInv, Progress, Emitted
  <1>3. Early' => models' \subseteq Built' \union todo' /\ (phase' = "models" => models' = Annotated)
    BY <1>1 DEF NeededInv, Progress, Early
  <1>4. ScanModels' => \A d \in models' \intersect Built' :
                          Registers(d) \subseteq models' \union (IF Early' THEN extraModels' ELSE {})
    <2> SUFFICES ASSUME ScanModels, NEW d \in models, d \in Built \/ d = n
                 PROVE  Registers(d) \subseteq models \union (IF Early THEN extraModels' ELSE {})
      BY <1>0, <1>1 DEF Early
    <2>1. CASE d \in Built
      BY <1>1, <2>1 DEF NeededInv, Progress
    <2>2. CASE d = n /\ d \notin Built
      <3>1. Early
        BY <1>0, <2>2 DEF NeededInv, Progress
      <3> QED BY <1>1, <2>2, <3>1
    <2> QED BY <2>1, <2>2
  <1>5. ScanModels' /\ ~Early' /\ phase' # "done" => models' \subseteq Built'
    BY <1>0, <1>1 DEF NeededInv, Progress, Early
  <1>6. /\ phase' = "parameters" => ParamDecl \subseteq Built' \union todo'
        /\ phase' \in {"responses", "discovered"} => ParamDecl \subseteq Built'
        /\ \A r \in KeptResp : Past(r)' => r \in Built'
        /\ phase' = "discovered" => nextResp' > Len(RespOrder)
    BY <1>1 DEF NeededInv, Progress, Past
  <1>7. Annotated \subseteq models' /\ ~Complete'
    BY <1>0 DEF NeededInv, Progress, Complete
  <1> QED BY <1>2, <1>3, <1>4, <1>5, <1>6, <1>7 DEF Progress

\* A response that is built is the first of its name, and one that is dropped
\* is not.
LEMMA KeptIsBuilt ==
  ASSUME TypeOK, Justified, nextResp <= Len(RespOrder)
  PROVE  /\ CurrentResp \in RespDecl
         /\ RespName[CurrentResp] \notin scanned <=> CurrentResp \in KeptResp
  <1>0. Len(RespOrder) \in Nat /\ nextResp \in 1..Len(RespOrder)
    BY LenNat DEF TypeOK
  <1>1. CurrentResp \in RespDecl
    BY <1>0, RespTyped DEF CurrentResp
  <1>2. ASSUME RespName[CurrentResp] \notin scanned PROVE CurrentResp \in KeptResp
    <2>1. ASSUME NEW k \in 1..(nextResp - 1) PROVE RespName[RespOrder[k]] # RespName[RespOrder[nextResp]]
      <3>1. k \in 1..Len(RespOrder) /\ k < nextResp
        BY <1>0
      <3>2. RespOrder[k] \in RespDecl /\ Past(RespOrder[k])
        BY <3>1, RespTyped DEF Past
      <3>3. RespName[RespOrder[k]] \in scanned
        BY <3>2 DEF Justified
      <3> QED BY <1>2, <3>3 DEF CurrentResp
    <2> QED BY <1>0, <2>1 DEF KeptResp, CurrentResp
  <1>3. ASSUME RespName[CurrentResp] \in scanned PROVE CurrentResp \notin KeptResp
    <2>1. PICK r \in RespDecl : Past(r) /\ RespName[r] = RespName[CurrentResp]
      BY <1>3 DEF Justified
    <2>2. PICK i \in 1..Len(RespOrder) : i < nextResp /\ r = RespOrder[i]
      BY <2>1 DEF Past
    <2> SUFFICES ASSUME CurrentResp \in KeptResp PROVE FALSE
      OBVIOUS
    <2>3. PICK j \in 1..Len(RespOrder) :
            /\ CurrentResp = RespOrder[j]
            /\ \A k \in 1..(j - 1) : RespName[RespOrder[k]] # RespName[RespOrder[j]]
      BY DEF KeptResp
    <2>4. j = nextResp
      BY <1>0, <2>3, InputAssumption DEF CurrentResp
    <2>5. i \in 1..(j - 1)
      BY <1>0, <2>2, <2>4
    <2> QED BY <2>1, <2>2, <2>3, <2>5
  <1> QED BY <1>1, <1>2, <1>3

\* When a response's turn is over, it is past.
LEMMA PastGrows ==
  ASSUME TypeOK, nextResp <= Len(RespOrder), nextResp' = nextResp + 1, NEW r
  PROVE  Past(r)' <=> Past(r) \/ r = CurrentResp
  <1>0. Len(RespOrder) \in Nat /\ nextResp \in 1..Len(RespOrder)
    BY LenNat DEF TypeOK
  <1>1. \A i \in 1..Len(RespOrder) : i < nextResp + 1 <=> i < nextResp \/ i = nextResp
    BY <1>0
  <1>2. Past(r)' <=> \E i \in 1..Len(RespOrder) : i < nextResp + 1 /\ r = RespOrder[i]
    BY DEF Past
  <1> QED BY <1>0, <1>1, <1>2 DEF Past, CurrentResp

\* A step that builds nothing and hands nothing out.
LEMMA QuietStep ==
  ASSUME NeededInv, UNCHANGED <<input, builds, outcome, definitions>>
  PROVE  /\ Needed' = Needed /\ ScanModels' = ScanModels /\ Built' = Built /\ Emitted' = Emitted
         /\ \A n : Sound(n)' <=> Sound(n)
         /\ Emitted' \subseteq Needed'
         /\ \A n \in Built' : Sound(n)'
         /\ definitions' = Overlay \union {DefKey[d] : d \in Emitted'}
  <1>1. /\ Needed' = Needed /\ ScanModels' = ScanModels /\ Built' = Built /\ Emitted' = Emitted
        /\ \A n : Sound(n)' <=> Sound(n)
    BY DEF Needed, ScanModels, Built, Emitted, Sound
  <1> QED BY <1>1 DEF NeededInv, Justified, Progress

LEMMA NeededStart == Init => Justified /\ Progress
  <1> SUFFICES ASSUME Init PROVE Justified /\ Progress
    OBVIOUS
  <1>0. TypeOK
    BY InputAssumption, LenNat DEF Init, TypeOK, Phases, Outcomes, Node
  <1>1. Built = {} /\ Emitted = {}
    BY DEF Init, Built, Emitted
  <1>2. \A r : ~Past(r)
    BY LenNat DEF Init, Past
  <1>3. ScanModels => Annotated \subseteq Needed /\ Annotated \subseteq Roots
    BY <1>0, RootsClosed, NeededCloses
  <1>4. todo \intersect Decl \subseteq Needed
    BY <1>3, InputAssumption DEF Init
  <1>5. Early => ScanModels /\ models \union extraModels \subseteq Roots
    BY <1>3 DEF Init, Early
  <1>6. Justified
    BY <1>1, <1>2, <1>4, <1>5 DEF Init, Justified
  <1>7. Progress
    BY <1>1, <1>2, InputAssumption DEF Init, Progress, Early, Complete
  <1> QED BY <1>6, <1>7

\* A response is built, or dropped.
LEMMA ResponseNeeded ==
  ASSUME KeysAreUnique, NeededInv, BuildResponse \/ DropResponse
  PROVE  Justified' /\ Progress'
  <1> DEFINE r == CurrentResp
  <1>0. /\ TypeOK /\ Justified /\ Progress /\ Fresh
        /\ phase = "responses" /\ nextResp <= Len(RespOrder) /\ nextResp' = nextResp + 1
        /\ UNCHANGED <<input, phase, todo, models, outcome, definitions>>
    BY DEF NeededInv, BuildResponse, DropResponse, BuildSection
  <1>1. /\ r \in RespDecl /\ (RespName[r] \notin scanned <=> r \in KeptResp)
        /\ \A s : Past(s)' <=> Past(s) \/ s = r
    BY <1>0, KeptIsBuilt, PastGrows
  <1>2. r \in Node /\ r \notin Decl
    BY <1>1, InputAssumption DEF Node
  <1>3. scanned' = scanned \union {RespName[r]}
    BY DEF BuildResponse, DropResponse
  <1>4. Needed' = Needed /\ ScanModels' = ScanModels /\ outcome = "running" /\ todo = {}
    BY <1>0 DEF Needed, ScanModels, Justified, Fresh
  <1>5. /\ Built' = Built \union (IF r \in KeptResp THEN {r} ELSE {})
        /\ \A d \in discovered' : d \in discovered \/ (r \in KeptResp /\ d \in Discovers(r))
        /\ r \in KeptResp => Sound(r)
    <2>1. CASE BuildResponse
      <3>1. RespName[r] \notin scanned /\ Sound(r) /\ BuildSection(r)
        BY <2>1 DEF BuildResponse
      <3> HIDE DEF r
      <3>2. builds[r] \in Nat /\ builds'[r] = builds[r] + 1 /\ \A m \in Node : m # r => builds'[m] = builds[m]
        BY <1>0, <1>2, <3>1, BuildCounts DEF TypeOK
      <3>3. Built' = Built \union {r}
        BY <1>2, <3>2 DEF Built
      <3> QED BY <1>1, <3>1, <3>3 DEF BuildSection
    <2>2. CASE DropResponse
      <3>1. RespName[r] \in scanned /\ UNCHANGED <<builds, discovered>>
        BY <2>2 DEF DropResponse
      <3> QED BY <1>1, <3>1 DEF Built
    <2> QED BY <2>1, <2>2
  <1> HIDE DEF r
  <1>6. Emitted' = Emitted
    BY <1>2, <1>5 DEF Emitted
  <1>7. ~Early /\ ~Early'
    BY <1>0 DEF Early
  <1>8. scanned' = {RespName[s] : s \in {t \in RespDecl : Past(t)'}}
    BY <1>0, <1>1, <1>3 DEF Justified
  <1>9. \A d \in discovered' : d \in Needed' \/ Pinned(d)
    BY <1>0, <1>4, <1>5, NeededCloses DEF Justified, Sections
  <1>10. \A n \in Built' : Sound(n)'
    BY <1>0, <1>5 DEF Justified, Sound
  <1>11. Justified'
    BY <1>0, <1>4, <1>6, <1>7, <1>8, <1>9, <1>10 DEF Justified
  <1>12. \A s \in KeptResp : Past(s)' => s \in Built'
    BY <1>0, <1>1, <1>5 DEF Progress
  <1>13. ScanModels' => \A d \in models' \intersect Built' :
                           Registers(d) \subseteq models' \union (IF Early' THEN extraModels' ELSE {})
    BY <1>0, <1>2, <1>4, <1>5, <1>7 DEF Progress, TypeOK
  <1>14. ~Complete'
    BY <1>0, <1>4 DEF Complete
  <1>15. Progress'
    BY <1>0, <1>4, <1>5, <1>6, <1>7, <1>12, <1>13, <1>14 DEF Progress
  <1> QED BY <1>11, <1>15

\* A build that fails could not build something that is needed.
LEMMA FailureNeeded ==
  ASSUME NeededInv, NEW n \in Node, Fail(n), phase # "done"
  PROVE  Justified' /\ Progress'
  <1>0. TypeOK /\ Fresh /\ Justified /\ Progress
    BY DEF NeededInv
  <1>1. /\ phase' = "done" /\ outcome' \in {"located panic", "backstop panic", "error"}
        /\ n \in InHand /\ ~Sound(n)
        /\ UNCHANGED <<input, todo, models, extraModels, discovered, definitions,
                       nextResp, scanned, builds>>
    BY DEF Fail, PanicOutcome
  <1>2. n \in Sections \union Needed
    <2>1. CASE phase = "responses"
      BY <1>0, <1>1, <2>1, KeptIsBuilt DEF InHand, Sections
    <2>2. CASE phase # "responses"
      BY <1>0, <1>1, <2>2 DEF InHand, Sections, TypeOK, Justified
    <2> QED BY <2>1, <2>2
  <1>3. /\ Needed' = Needed /\ ScanModels' = ScanModels /\ Built' = Built /\ Emitted' = Emitted
        /\ \A m : Sound(m)' <=> Sound(m)
        /\ \A r : Past(r)' <=> Past(r)
    BY <1>1 DEF Needed, ScanModels, Built, Emitted, Sound, Past
  <1>4. ~Early' /\ ~Complete'
    BY <1>1 DEF Early, Complete
  <1>5. Justified'
    BY <1>0, <1>1, <1>2, <1>3, <1>4 DEF Justified
  <1>6. Progress'
    BY <1>0, <1>1, <1>3, <1>4 DEF Progress
  <1> QED BY <1>5, <1>6

\* The steps between the loops.
LEMMA TurnNeeded ==
  ASSUME NeededInv, phase # "done",
         EndModels \/ TakeExtraModels \/ EndExtraModels \/ EndParameters
           \/ EndResponses \/ StartPass \/ EndDiscovered
  PROVE  Justified' /\ Progress'
  <1>0. TypeOK /\ Fresh /\ Justified /\ Progress
    BY DEF NeededInv
  <1>1. UNCHANGED <<input, definitions, nextResp, scanned, builds>>
    BY DEF EndModels, TakeExtraModels, EndExtraModels, EndParameters, EndResponses,
       StartPass, EndDiscovered
  <1>2. /\ Needed' = Needed /\ ScanModels' = ScanModels /\ Built' = Built /\ Emitted' = Emitted
        /\ \A m : Sound(m)' <=> Sound(m)
        /\ \A r : Past(r)' <=> Past(r)
    BY <1>1 DEF Needed, ScanModels, Built, Emitted, Sound, Past
  <1>3. outcome = "running" /\ todo = {}
    BY <1>0 DEF Justified, Fresh, EndModels, TakeExtraModels, EndExtraModels, EndParameters,
         EndResponses, StartPass, EndDiscovered
  <1> USE <1>0, <1>1, <1>2, <1>3
  <1>4. CASE EndModels
    <2>1. UNCHANGED <<todo, models, extraModels, discovered, outcome>>
          /\ phase = "models" /\ phase' = "extras"
      BY <1>4 DEF EndModels
    <2>2. Justified'
      BY <2>1 DEF Justified, Early
    <2>3. Progress'
      BY <2>1 DEF Progress, Early, Complete
    <2> QED BY <2>2, <2>3
  <1>5. CASE TakeExtraModels
    <2>1. /\ UNCHANGED <<phase, discovered, outcome>> /\ phase = "extras"
          /\ todo' = extraModels /\ models' = models \union extraModels /\ extraModels' = {}
      BY <1>5 DEF TakeExtraModels
    <2>2. todo' \subseteq Needed
      BY <2>1, NeededCloses DEF Justified, Early
    <2>3. Justified'
      BY <2>1, <2>2 DEF Justified, Early
    <2>4. ASSUME ScanModels, NEW d \in models' \intersect Built' PROVE Registers(d) \subseteq models'
      <3>1. d \in Decl /\ builds[d] > 0
        BY <2>1, <2>4 DEF TypeOK, Built
      <3>2. d \in models
        BY <2>1, <3>1 DEF Fresh, Early
      <3> QED BY <2>1, <2>4, <3>2 DEF Progress, Early
    <2>5. Progress'
      BY <2>1, <2>4 DEF Progress, Early, Complete
    <2> QED BY <2>3, <2>5
  <1>6. CASE EndExtraModels
    <2>1. /\ UNCHANGED <<models, extraModels, discovered, outcome>> /\ extraModels = {}
          /\ phase = "extras" /\ phase' = "parameters" /\ todo' = ParamDecl
      BY <1>6 DEF EndExtraModels
    <2>2. Justified'
      BY <2>1, InputAssumption DEF Justified, Early
    <2>3. Progress'
      BY <2>1 DEF Progress, Early, Complete
    <2> QED BY <2>2, <2>3
  <1>7. CASE EndParameters
    <2>1. UNCHANGED <<todo, models, extraModels, discovered, outcome>>
          /\ phase = "parameters" /\ phase' = "responses"
      BY <1>7 DEF EndParameters
    <2>2. Justified'
      BY <2>1 DEF Justified, Early
    <2>3. Progress'
      BY <2>1 DEF Progress, Early, Complete
    <2> QED BY <2>2, <2>3
  <1>8. CASE EndResponses
    <2>1. UNCHANGED <<todo, models, extraModels, discovered, outcome>>
          /\ phase = "responses" /\ phase' = "discovered" /\ nextResp > Len(RespOrder)
      BY <1>8 DEF EndResponses
    <2>2. Justified'
      BY <2>1 DEF Justified, Early
    <2>3. Progress'
      BY <2>1 DEF Progress, Early, Complete
    <2> QED BY <2>2, <2>3
  <1>9. CASE StartPass
    <2>1. /\ UNCHANGED <<phase, models, extraModels, outcome>> /\ phase = "discovered"
          /\ todo' \subseteq Undefined /\ discovered' = {}
      BY <1>9 DEF StartPass
    <2>2. todo' \subseteq Needed
      BY <2>1 DEF Undefined, Justified, Progress, Pinned
    <2>3. Justified'
      BY <2>1, <2>2 DEF Justified, Early
    <2>4. Progress'
      BY <2>1 DEF Progress, Early, Complete
    <2> QED BY <2>3, <2>4
  <1>10. CASE EndDiscovered
    <2>1. UNCHANGED <<todo, models, extraModels, discovered>> /\ discovered = {}
          /\ phase = "discovered" /\ phase' = "done" /\ outcome' = "complete"
      BY <1>10 DEF EndDiscovered
    <2>2. Justified'
      BY <2>1 DEF Justified, Early
    <2>3. Progress'
      BY <2>1 DEF Progress, Early, Complete
    <2> QED BY <2>2, <2>3
  <1> QED BY <1>4, <1>5, <1>6, <1>7, <1>8, <1>9, <1>10

\* A step of Build that builds a declaration or a parameter set.
Building(n) == BuildModel(n) \/ BuildExtraModel(n) \/ BuildDiscovered(n) \/ BuildParameters(n)

\* What every such step does.
LEMMA BuildingMeans ==
  ASSUME TypeOK, Fresh, NEW n \in Decl \union ParamDecl, Building(n),
         n \in ParamDecl => BuildParameters(n), n \in Decl => ~BuildParameters(n)
  PROVE  /\ n \in todo /\ Sound(n) /\ phase # "done" /\ phase' = phase /\ todo' = todo \ {n}
         /\ n \in Decl => BuildSchema(n)
         /\ n \notin Decl => BuildSection(n)
         /\ UNCHANGED <<input, models, nextResp, scanned, outcome>>
  <1>1. CASE n \in Decl
    BY <1>1, InputAssumption DEF Building, BuildModel, BuildExtraModel, BuildDiscovered
  <1>2. CASE n \notin Decl
    BY <1>2 DEF BuildParameters
  <1> QED BY <1>1, <1>2

LEMMA NeededStep ==
  ASSUME KeysAreUnique, NeededInv, [Next]_vars
  PROVE  Justified' /\ Progress'
  <1>0. TypeOK /\ Fresh /\ Justified
    BY DEF NeededInv
  <1>1. ASSUME NEW n \in Decl \union ParamDecl, Building(n),
               n \in ParamDecl => BuildParameters(n), n \in Decl => ~BuildParameters(n)
        PROVE  Justified' /\ Progress'
    <2>1. /\ n \in todo /\ Sound(n) /\ phase # "done" /\ phase' = phase /\ todo' = todo \ {n}
          /\ n \in Decl => BuildSchema(n)
          /\ n \notin Decl => BuildSection(n)
          /\ UNCHANGED <<input, models, nextResp, scanned, outcome>>
      BY <1>0, <1>1, BuildingMeans
    <2>2. n \in Sections \union Needed
      BY <1>0, <2>1 DEF Justified, Sections
    <2>3. Justified'
      BY <2>1, <2>2, BuildJustified
    <2>4. Progress'
      BY <2>1, BuildProgresses
    <2> QED BY <2>3, <2>4
  <1>2. ASSUME NEW d \in Decl, BuildModel(d) \/ BuildExtraModel(d) \/ BuildDiscovered(d)
        PROVE  Justified' /\ Progress'
    <2>1. d \notin ParamDecl /\ ~BuildParameters(d)
      BY <1>2, InputAssumption DEF BuildModel, BuildExtraModel, BuildDiscovered, BuildParameters
    <2> QED BY <1>1, <1>2, <2>1 DEF Building
  <1>3. ASSUME NEW p \in ParamDecl, BuildParameters(p) PROVE Justified' /\ Progress'
    BY <1>1, <1>3, InputAssumption DEF Building
  <1>4. CASE \/ EndModels \/ TakeExtraModels \/ EndExtraModels \/ EndParameters
             \/ EndResponses \/ StartPass \/ EndDiscovered
    BY <1>4, TurnNeeded DEF EndModels, TakeExtraModels, EndExtraModels, EndParameters,
       EndResponses, StartPass, EndDiscovered
  <1>5. CASE BuildResponse \/ DropResponse
    BY <1>5, ResponseNeeded
  <1>6. ASSUME NEW n \in Node, phase # "done", Fail(n) PROVE Justified' /\ Progress'
    BY <1>6, FailureNeeded
  <1>7. CASE UNCHANGED vars
    <2>1. /\ Needed' = Needed /\ ScanModels' = ScanModels /\ Built' = Built /\ Emitted' = Emitted
          /\ \A m : Sound(m)' <=> Sound(m)
          /\ \A r : Past(r)' <=> Past(r)
          /\ Early' <=> Early
          /\ Complete' <=> Complete
      BY <1>7 DEF vars, Needed, ScanModels, Built, Emitted, Sound, Past, Early, Complete
    <2>2. Justified'
      BY <1>0, <1>7, <2>1 DEF vars, Justified
    <2>3. Progress'
      BY <1>7, <2>1 DEF vars, NeededInv, Progress
    <2> QED BY <2>2, <2>3
  <1> QED BY <1>2, <1>3, <1>4, <1>5, <1>6, <1>7 DEF Next, Terminated

LEMMA NeededInvariant ==
  ASSUME KeysAreUnique
  PROVE  Spec => []NeededInv
  <1>1. TypeOK /\ CoverInv /\ Fresh /\ Justified /\ Progress <=> NeededInv
    BY DEF NeededInv
  <1>2. NeededInv /\ [Next]_vars => Justified' /\ Progress'
    BY NeededStep
  <1> QED BY <1>1, <1>2, NeededStart, TypeCorrect, CoverInvariant, FreshInvariant, PTL DEF Spec

\* Every parameter set and every response that is kept was built, once only the
\* discovered declarations are left.
LEMMA SectionsAreBuilt ==
  ASSUME TypeOK, Progress, Complete \/ phase = "discovered"
  PROVE  Sections \subseteq Built
  <1>1. ParamDecl \subseteq Built /\ nextResp > Len(RespOrder)
    BY DEF Progress
  <1>2. ASSUME NEW r \in KeptResp PROVE Past(r)
    <2>1. PICK i \in 1..Len(RespOrder) : r = RespOrder[i]
      BY DEF KeptResp
    <2>2. i < nextResp
      BY <1>1, <2>1, LenNat DEF TypeOK
    <2> QED BY <2>1, <2>2 DEF Past
  <1> QED BY <1>1, <1>2 DEF Sections, Progress

\* What a complete build emitted is closed, and so holds all that is needed.
LEMMA CompleteEmits ==
  ASSUME KeysAreUnique, NeededInv,
         Complete \/ (phase = "discovered" /\ discovered = {} /\ todo = {})
  PROVE  Needed = Emitted
  <1>0. TypeOK /\ Justified /\ Progress /\ Emitted \subseteq Decl /\ Emitted \subseteq Needed
    BY DEF NeededInv, Emitted, Justified
  <1>1. Sections \subseteq Built
    BY <1>0, SectionsAreBuilt
  <1>2. Queue = {} /\ ~Early
    BY DEF NeededInv, CoverInv, AtEnd, Queue, Early
  <1>3. ASSUME NEW n \in Built, NEW d \in Wanted(n) PROVE d \in Emitted \/ Pinned(d)
    <2>1. d \in Decl
      BY <1>3, WantedTyped DEF Built
    <2>2. DefKey[d] \in definitions
      BY <1>2, <1>3 DEF NeededInv, CoverInv, Cover, IsCovered
    <2>3. Pinned(d) \/ \E e \in Emitted : DefKey[e] = DefKey[d]
      BY <1>0, <2>2 DEF Progress, Pinned
    <2> QED BY <1>0, <2>1, <2>3 DEF KeysAreUnique
  <1>4. ScanModels => \E E \in SUBSET Emitted : IsEmbedClosed(E)
    <2> SUFFICES ASSUME ScanModels PROVE models \in SUBSET Emitted /\ IsEmbedClosed(models)
      OBVIOUS
    <2>1. models \subseteq Built
      BY <1>0, <1>2 DEF Progress, Complete
    <2>2. models \subseteq Emitted
      BY <1>0, <2>1 DEF TypeOK, Emitted
    <2>3. \A d \in models : Registers(d) \subseteq models
      BY <1>0, <1>2, <2>1 DEF Progress
    <2> QED BY <1>0, <2>2, <2>3 DEF Progress, IsEmbedClosed
  <1>5. ASSUME ~ScanModels, NEW d \in Emitted \intersect Discriminated, NEW s \in Annotated, d \in Bases[s]
        PROVE  s \in Emitted \/ Pinned(s)
    <2>1. d \in Built /\ s \in Wanted(d)
      BY <1>5 DEF Emitted, Wanted
    <2> QED BY <1>3, <2>1
  <1>6. \A n \in Sections \union Emitted : \A d \in Discovers(n) : d \in Emitted \/ Pinned(d)
    BY <1>1, <1>3 DEF Wanted, Emitted
  <1>7. IsClosed(ScanModels, Emitted)
    BY <1>4, <1>5, <1>6 DEF IsClosed
  <1> QED BY <1>0, <1>7, NeededMeans

\* Whether Build succeeds is settled by its input: whatever the order of the
\* loops, it fails when something it needs cannot be built, and only then.
THEOREM OutcomeDetermined ==
  ASSUME KeysAreUnique
  PROVE  Spec => []OutcomeIsDetermined
  <1>1. NeededInv => OutcomeIsDetermined
    <2> SUFFICES ASSUME NeededInv, phase = "done"
                 PROVE  Complete <=> \A n \in Sections \union Needed : Sound(n)
      BY DEF OutcomeIsDetermined
    <2>0. TypeOK /\ Justified /\ Progress
      BY DEF NeededInv
    <2>1. CASE Complete
      <3>1. Sections \union Needed \subseteq Built
        BY <2>0, <2>1, SectionsAreBuilt, CompleteEmits DEF Emitted
      <3> QED BY <2>0, <2>1, <3>1 DEF Justified
    <2>2. CASE ~Complete
      BY <2>0, <2>2 DEF Justified, Complete
    <2> QED BY <2>1, <2>2
  <1> QED BY <1>1, NeededInvariant, PTL

\* Step by step, the loops do what Emission promises: building a declaration
\* emits one that is needed and was not emitted, the end of buildDiscovered
\* completes with all of them, a failure aborts, and all else is unseen.
LEMMA PromiseStep ==
  ASSUME KeysAreUnique, NeededInv, [Next]_vars
  PROVE  [Promise!Next]_(Promise!vars)
  <1>0. TypeOK /\ Fresh /\ Justified
    BY DEF NeededInv
  <1>1. Needed' = Needed
    BY InputIsFixed DEF Needed, ScanModels
  <1>2. ASSUME NEW d \in Decl, BuildModel(d) \/ BuildExtraModel(d) \/ BuildDiscovered(d)
        PROVE  Promise!Emit(d)
    <2>1. d \in Node /\ d \in todo /\ BuildSchema(d) /\ phase # "done" /\ phase' = phase
      BY <1>2 DEF BuildModel, BuildExtraModel, BuildDiscovered, Node
    <2>2. /\ builds'[d] = builds[d] + 1 /\ builds[d] = 0
          /\ \A m \in Node : m # d => builds'[m] = builds[m]
      BY <1>0, <2>1, BuildCounts DEF Fresh
    <2>3. d \notin Built /\ Built' = Built \union {d}
      BY <2>1, <2>2 DEF Built
    <2>4. d \in Needed /\ d \notin Emitted /\ Emitted' = Emitted \union {d}
      BY <1>0, <2>1, <2>3 DEF Emitted, Justified
    <2> QED BY <1>1, <2>1, <2>4 DEF Promise!Emit, Result
  <1>3. ASSUME NEW n \in ParamDecl \union RespDecl, BuildSection(n), phase # "done", phase' = phase
        PROVE  UNCHANGED Promise!vars
    <2>1. n \in Node /\ n \notin Decl
      BY InputAssumption DEF Node
    <2>2. \A m \in Node : m # n => builds'[m] = builds[m]
      BY <1>0, <1>3, <2>1, BuildCounts
    <2>3. Emitted' = Emitted
      BY <2>1, <2>2 DEF Emitted, Built, Node
    <2> QED BY <1>1, <1>3, <2>3 DEF Promise!vars, Result
  <1>4. CASE EndDiscovered
    <2>1. /\ phase = "discovered" /\ discovered = {} /\ todo = {} /\ UNCHANGED builds
          /\ phase' = "done" /\ outcome' = "complete"
      BY <1>4 DEF EndDiscovered
    <2>2. Emitted = Needed /\ Emitted' = Emitted
      BY <2>1, CompleteEmits DEF Emitted, Built
    <2> QED BY <1>1, <2>1, <2>2 DEF Promise!Next, Promise!Complete, Result, Complete
  <1>5. ASSUME NEW n \in Node, phase # "done", Fail(n) PROVE Promise!Next
    <2>1. phase' = "done" /\ outcome' # "complete" /\ UNCHANGED builds
      BY <1>5 DEF Fail, PanicOutcome
    <2> QED BY <1>1, <1>5, <2>1 DEF Promise!Next, Promise!Abort, Result, Complete, Emitted, Built
  <1>6. CASE \/ EndModels \/ TakeExtraModels \/ EndExtraModels \/ EndParameters
             \/ EndResponses \/ StartPass \/ DropResponse
    <2>1. UNCHANGED builds /\ phase # "done" /\ phase' # "done"
      BY <1>6 DEF EndModels, TakeExtraModels, EndExtraModels, EndParameters,
         EndResponses, StartPass, DropResponse
    <2> QED BY <1>1, <2>1 DEF Promise!vars, Result, Emitted, Built
  <1>7. ASSUME NEW p \in ParamDecl, BuildParameters(p) PROVE UNCHANGED Promise!vars
    BY <1>3, <1>7 DEF BuildParameters
  <1>8. CASE BuildResponse
    <2>1. CurrentResp \in RespDecl
      BY <1>0, <1>8, KeptIsBuilt DEF BuildResponse
    <2>2. BuildSection(CurrentResp) /\ phase # "done" /\ phase' = phase
      BY <1>8 DEF BuildResponse
    <2> QED BY <1>3, <2>1, <2>2
  <1>9. CASE UNCHANGED vars
    BY <1>1, <1>9 DEF vars, Promise!vars, Result, Complete, Emitted, Built
  <1> QED BY <1>2, <1>4, <1>5, <1>6, <1>7, <1>8, <1>9 DEF Next, Terminated, Promise!Next

\* The loops of Build implement Emission but for its liveness: only what is
\* needed is emitted, each once, and a completed build emitted all of it.
THEOREM KeepsItsPromiseSafely ==
  ASSUME KeysAreUnique
  PROVE  Spec => Promise!Init /\ [][Promise!Next]_(Promise!vars)
  <1>1. Init => Promise!Init
    <2> SUFFICES ASSUME Init PROVE Promise!Init
      OBVIOUS
    <2>1. Emitted = {} /\ phase # "done"
      BY DEF Init, Emitted, Built
    <2>2. TypeOK
      BY InputAssumption, LenNat DEF Init, TypeOK, Phases, Outcomes, Node
    <2> QED BY <2>1, <2>2, NeededCloses DEF Promise!Init, Result
  <1>2. NeededInv /\ [Next]_vars => [Promise!Next]_(Promise!vars)
    BY PromiseStep
  <1> QED BY <1>1, <1>2, NeededInvariant, PTL DEF Spec
=============================================================================
