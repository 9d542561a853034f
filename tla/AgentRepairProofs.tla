------------------------- MODULE AgentRepairProofs -------------------------
(***************************************************************************)
(* Theorems about AgentRepair, for any output struct and any required      *)
(* fields.                                                                 *)
(***************************************************************************)
EXTENDS AgentRepair, TLAPS

\* Between the calls: which answers there are, and that a first answer kept for a
\* repair was refused.
IInv ==
    /\ TypeOK
    /\ pc = "first" => ~err /\ replies[1] = NoReply
    /\ pc \in {"first", "repair"} => ~err /\ replies[2] = NoReply
    /\ SuccessIsLastAnswer
    /\ RepairIsOfRefused

LEMMA ReplyType ==
    ASSUME NEW reply \in Replies
    PROVE  /\ reply # NoReply
           /\ reply.json \in {"none", "mistyped", "readable"}
           /\ reply.json # "none" => reply.fields \in [Fields -> {"absent", "blank", "good"}]
<1>1. Zero \in [Fields -> {"zero", "absent", "blank", "good"}]
  BY DEF Zero
<1>2. reply \in [json : {"none", "mistyped", "readable"},
                 fields : [Fields -> {"zero", "absent", "blank", "good"}]]
  BY <1>1 DEF Replies
<1> QED
  BY <1>2, NoReplyAssumption DEF Replies

\* What decoding an answer into a new struct leaves there: what the answer says, and
\* it is accepted exactly when it is not to be refused.
LEMMA ParsedIsSaid ==
    ASSUME NEW reply \in Replies, Parse(reply)
    PROVE  /\ out' \in Output
           /\ Accepted(reply) <=> ~Refused(reply)
           /\ Accepted(reply) => out' = Said(reply)
<1>1. CASE reply.json = "none"
  BY <1>1 DEF Parse, Unmarshal, Zero, Output, Values, Accepted, Refused
<1>2. CASE reply.json # "none"
  <2>1. reply.fields \in [Fields -> {"absent", "blank", "good"}]
    BY <1>2, ReplyType
  <2>2. out' = Said(reply)
    BY <1>2 DEF Parse, Unmarshal, Zero, Said
  <2>3. out' \in Output
    BY <2>1, <2>2 DEF Said, Output, Values
  <2>4. Validate(out') <=> \A f \in Required : reply.fields[f] = "good"
    BY <2>1, <2>2, RequiredAssumption DEF Validate, Said
  <2> QED
    BY <2>2, <2>3, <2>4 DEF Accepted, Refused
<1> QED
  BY <1>1, <1>2

LEMMA InitEstablishes == Init => IInv
<1> SUFFICES ASSUME Init PROVE IInv
  OBVIOUS
<1>1. Zero \in Output
  BY DEF Zero, Output, Values
<1>2. pc = "first" /\ err = FALSE /\ out = Zero
  BY DEF Init
<1>3. /\ replies \in [1 .. 2 -> Replies \cup {NoReply}]
      /\ replies[1] = NoReply /\ replies[2] = NoReply
  BY DEF Init
<1>4. TypeOK
  BY <1>1, <1>2, <1>3 DEF TypeOK
<1> QED
  BY <1>2, <1>3, <1>4 DEF IInv, SuccessIsLastAnswer, RepairIsOfRefused

LEMMA NextPreserves == IInv /\ [Next]_vars => IInv'
<1> SUFFICES ASSUME IInv, [Next]_vars PROVE IInv'
  OBVIOUS
<1> USE DEF IInv
<1>1. CASE UNCHANGED vars
  BY <1>1 DEF vars, TypeOK, SuccessIsLastAnswer, RepairIsOfRefused, Last
<1>2. CASE CompleteFails
  BY <1>2 DEF CompleteFails, TypeOK, SuccessIsLastAnswer, RepairIsOfRefused
<1>3. ASSUME NEW reply \in Replies, First(reply)
      PROVE  IInv'
  <2>1. /\ out' \in Output
        /\ Accepted(reply) <=> ~Refused(reply)
        /\ Accepted(reply) => out' = Said(reply)
    BY <1>3, ParsedIsSaid DEF First
  <2>2. /\ replies' \in [1 .. 2 -> Replies \cup {NoReply}]
        /\ replies'[1] = reply /\ replies'[2] = NoReply
        /\ reply # NoReply
    BY <1>3, ReplyType DEF First, TypeOK
  <2>3. pc' \in {"repair", "returned"} /\ (pc' = "returned" <=> Accepted(reply)) /\ ~err'
    BY <1>3 DEF First
  <2>4. TypeOK'
    <3>1. err' \in BOOLEAN
      BY <1>3 DEF First, TypeOK
    <3>2. pc' \in {"first", "repair", "returned"}
      BY <2>3
    <3> QED
      BY <2>1, <2>2, <3>1, <3>2 DEF TypeOK
  <2>5. SuccessIsLastAnswer'
    BY <2>1, <2>2, <2>3 DEF SuccessIsLastAnswer, Last
  <2>6. RepairIsOfRefused'
    BY <2>1, <2>2, <2>3 DEF RepairIsOfRefused
  <2> QED
    BY <2>2, <2>3, <2>4, <2>5, <2>6
<1>4. ASSUME NEW reply \in Replies, Second(reply)
      PROVE  IInv'
  <2>1. /\ out' \in Output
        /\ Accepted(reply) <=> ~Refused(reply)
        /\ Accepted(reply) => out' = Said(reply)
    BY <1>4, ParsedIsSaid DEF Second
  <2>2. /\ replies' \in [1 .. 2 -> Replies \cup {NoReply}]
        /\ replies'[1] = replies[1] /\ replies'[2] = reply
        /\ reply # NoReply
    BY <1>4, ReplyType DEF Second, TypeOK
  <2>3. pc' = "returned" /\ err' = ~Accepted(reply)
    BY <1>4 DEF Second
  <2>4. TypeOK'
    <3>1. err' \in BOOLEAN
      BY <2>3
    <3>2. pc' \in {"first", "repair", "returned"}
      BY <2>3
    <3> QED
      BY <2>1, <2>2, <3>1, <3>2 DEF TypeOK
  <2>5. SuccessIsLastAnswer'
    BY <2>1, <2>2, <2>3 DEF SuccessIsLastAnswer, Last
  <2>6. replies[1] # NoReply /\ Refused(replies[1])
    BY <1>4 DEF Second, RepairIsOfRefused
  <2>7. RepairIsOfRefused'
    BY <2>1, <2>2, <2>3, <2>6 DEF RepairIsOfRefused
  <2> QED
    BY <2>2, <2>3, <2>4, <2>5, <2>7
<1> QED
  BY <1>1, <1>2, <1>3, <1>4 DEF Next

LEMMA Invariance == Spec => []IInv
  BY InitEstablishes, NextPreserves, PTL DEF Spec

\* The variables keep their types: the struct that answers are decoded into, the
\* answers kept for the repair prompt (agents.go runWithRepair).
THEOREM TypeCorrect == Spec => []TypeOK
<1>1. IInv => TypeOK
  BY DEF IInv
<1> QED
  BY <1>1, Invariance, PTL

\* Whatever the output struct and the fields Validate requires, an agent call that
\* succeeds returns its last answer alone, and it is valid (agents.go Plan,
\* Prioritize, Break, Report).
THEOREM SuccessIsTheLastAnswer == Spec => []SuccessIsLastAnswer
<1>1. IInv => SuccessIsLastAnswer
  BY DEF IInv
<1> QED
  BY <1>1, Invariance, PTL

\* Only a refused answer is repaired, once, and a good answer to the repair is
\* returned (agents.go runWithRepair).
THEOREM OnlyRefusedIsRepaired == Spec => []RepairIsOfRefused
<1>1. IInv => RepairIsOfRefused
  BY DEF IInv
<1> QED
  BY <1>1, Invariance, PTL

=============================================================================
