---------------------------- MODULE AgentRepair ----------------------------
(***************************************************************************)
(* One call of an agent (Plan, Prioritize, Break or Report): the prompt is *)
(* completed by Claude, the answer is decoded into out and validated, and  *)
(* an answer that is refused is sent back for one repair.                  *)
(*                                                                         *)
(* A field of the output is zero (the value of a new struct), blank (it    *)
(* decodes but Validate refuses it where the field is required) or good.   *)
(* An answer is not JSON at all, mistyped (json.Unmarshal fills what fits  *)
(* and then fails) or readable, and leaves out the fields that are absent. *)
(***************************************************************************)
EXTENDS Naturals

CONSTANTS
    Fields,     \* of the output
    Required,   \* those Validate looks at
    NoReply

ASSUME RequiredAssumption == Required \subseteq Fields

ASSUME NoReplyAssumption ==
    NoReply \notin [json : {"none", "mistyped", "readable"},
                    fields : [Fields -> {"zero", "absent", "blank", "good"}]]

VARIABLES
    pc,         \* first, repair (a completion is awaited), returned
    out,
    replies,    \* the answers so far, oldest first
    err         \* whether the call returned an error

vars == << pc, out, replies, err >>

Values == {"zero", "blank", "good"}

Output == [Fields -> Values]

Zero == [f \in Fields |-> "zero"]

Replies == [json : {"none"}, fields : {Zero}]
           \cup [json : {"mistyped", "readable"}, fields : [Fields -> {"absent", "blank", "good"}]]

TypeOK ==
    /\ pc \in {"first", "repair", "returned"}
    /\ out \in Output
    /\ replies \in [1 .. 2 -> Replies \cup {NoReply}]
    /\ err \in BOOLEAN

Init ==
    /\ pc = "first"
    /\ out = Zero
    /\ replies = [i \in 1 .. 2 |-> NoReply]
    /\ err = FALSE

-----------------------------------------------------------------------------
\* Mutant: a field that is absent overwrites what was there.
UnmarshalRaw(reply, v) == IF reply.json = "none" THEN v ELSE reply.fields

\* json.Unmarshal into v: a field that is absent keeps its value, and text that is
\* not JSON changes nothing.
Unmarshal(reply, v) ==
    IF reply.json = "none" THEN v
    ELSE [f \in Fields |-> IF reply.fields[f] = "absent" THEN v[f] ELSE reply.fields[f]]

Validate(v) == \A f \in Required : v[f] = "good"

\* Mutant: out keeps what an earlier answer left in it.
ParseOnto(reply) == out' = Unmarshal(reply, out)

\* The parse functions of the agents set out to a new struct first.
Parse(reply) == out' = Unmarshal(reply, Zero)

Accepted(reply) == reply.json = "readable" /\ Validate(out')

First(reply) ==
    /\ pc = "first"
    /\ replies' = [replies EXCEPT ![1] = reply]
    /\ Parse(reply)
    /\ pc' = IF Accepted(reply) THEN "returned" ELSE "repair"
    /\ UNCHANGED err

Second(reply) ==
    /\ pc = "repair"
    /\ replies' = [replies EXCEPT ![2] = reply]
    /\ Parse(reply)
    /\ pc' = "returned"
    /\ err' = ~Accepted(reply)

\* Mutant: a completion that failed is asked for again.
FailRetried ==
    \/ pc = "first" /\ pc' = "repair" /\ UNCHANGED << out, replies, err >>
    \/ pc = "repair" /\ pc' = "returned" /\ err' = TRUE /\ UNCHANGED << out, replies >>

\* The request failed, timed out, or came back empty.
CompleteFails ==
    /\ pc \in {"first", "repair"}
    /\ pc' = "returned" /\ err' = TRUE
    /\ UNCHANGED << out, replies >>

Next == CompleteFails \/ \E reply \in Replies : First(reply) \/ Second(reply)

Spec == Init /\ [][Next]_vars

-----------------------------------------------------------------------------
\* What one answer says, alone: the fields it leaves out are empty.
Said(reply) == [f \in Fields |-> IF reply.fields[f] = "absent" THEN "zero" ELSE reply.fields[f]]

Refused(reply) ==
    \/ reply.json # "readable"
    \/ \E f \in Required : reply.fields[f] # "good"

Last == IF replies[2] # NoReply THEN replies[2] ELSE replies[1]

\* A call that succeeds returns what its last answer says, alone: a field that was
\* in the answer before and is not in the repaired one is empty.  And what it
\* returns is valid.
SuccessIsLastAnswer ==
    pc = "returned" /\ ~err => Last # NoReply /\ ~Refused(Last) /\ out = Said(Last)

\* There is a repair only after an answer that was refused, never after a completion
\* that failed, and a good answer to the repair is not thrown away.
RepairIsOfRefused ==
    /\ pc = "repair" \/ replies[2] # NoReply => replies[1] # NoReply /\ Refused(replies[1])
    /\ pc = "returned" /\ err /\ replies[2] # NoReply => Refused(replies[2])

=============================================================================
