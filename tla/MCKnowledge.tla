------------------------------- MODULE MCKnowledge -------------------------------
(***************************************************************************)
(* Memories, skills and the context of a turn on one small instance.       *)
(*                                                                         *)
(* The three share no state: a behaviour is one of them alone, chosen at   *)
(* the start, so that their states add up and do not multiply.             *)
(***************************************************************************)
EXTENDS Memory, Skills, Context

VARIABLE part      \* the component this behaviour is about

\* Names that the three conversions of Skills.tla tell apart: upper case, a
\* blank, an underscore, a leading blank, and nothing to make a slug of.
SkillNamesMC == {<<"a">>, <<"A">>, <<"a", " ", "A">>, <<"a", "_", "a">>, <<" ", "a">>, <<"-">>}

OperatorStemsMC == {<<"a">>, <<"A">>, <<"a", "_", "a">>}

QueriesMC == {<<"a">>, <<"a", "-">>}

knowledgeVars == <<part, memVars, skillVars, contextVars>>

MCInit ==
    /\ part \in {"memory", "skills", "context"}
    /\ MemInit
    /\ SkillInit
    /\ ContextInit
    /\ part = "skills" \/ files = [s \in Stems |-> NoFile]

MCNext ==
    \/ /\ part = "memory"
       /\ MemNext
       /\ UNCHANGED <<part, skillVars, contextVars>>
    \/ /\ part = "skills"
       /\ SkillNext
       /\ UNCHANGED <<part, memVars, contextVars>>
    \/ /\ part = "context"
       /\ ContextNext
       /\ UNCHANGED <<part, memVars, skillVars>>

KnowledgeSpec == MCInit /\ [][MCNext]_knowledgeVars /\ MemFairness

\* Every variable of the three components holds a value of its type.
KnowledgeTypeOK == MemTypeOK /\ SkillTypeOK /\ ContextTypeOK

===============================================================================
