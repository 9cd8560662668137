------------------------------ MODULE MCCommands ------------------------------
(***************************************************************************)
(* Four parts of ws that share no state, checked in one run: a behaviour is *)
(* one of a vault command, a prompt, the workspaces or the diagnosis, and   *)
(* the other three stand still.                                             *)
(***************************************************************************)
EXTENDS VaultSession, Prompt, Workspaces, ProxyDiagnosis

VARIABLE on   \* the part that runs

Init ==
  \/ on = "vault" /\ SessInit /\ PromptOff /\ WsOff /\ DiagOff
  \/ on = "prompt" /\ SessOff /\ PromptInit /\ WsOff /\ DiagOff
  \/ on = "workspaces" /\ SessOff /\ PromptOff /\ WsInit /\ DiagOff
  \/ on = "diagnosis" /\ SessOff /\ PromptOff /\ WsOff /\ DiagInit

Next ==
  /\ UNCHANGED on
  /\ \/ SessNext /\ UNCHANGED <<promptVars, wsVars, diagVars>>
     \/ PromptNext /\ UNCHANGED <<sessVars, wsVars, diagVars>>
     \/ WsNext /\ UNCHANGED <<sessVars, promptVars, diagVars>>
     \/ DiagNext /\ UNCHANGED <<sessVars, promptVars, wsVars>>

Spec ==
  /\ Init /\ [][Next]_<<on, sessVars, promptVars, wsVars, diagVars>>
  /\ SessFairness /\ PromptFairness

TypeOK == SessTypeOK /\ PromptTypeOK /\ WsTypeOK /\ DiagTypeOK
=============================================================================
