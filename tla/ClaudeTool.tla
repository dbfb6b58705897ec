------------------------------ MODULE ClaudeTool ------------------------------
(***************************************************************************)
(* ClaudeTool.executePrompt (claude-tool.ts:96-182) and the prompt service *)
(* it calls (ClaudePromptService, src/unnamed/part_013): one live prompt   *)
(* against a session's stored conversation.                                *)
(*                                                                         *)
(* Each call p is a process whose pc stops at every await: it counts the  *)
(* session's messages, stores the user message, loads the session and the *)
(* last HistoryLimit messages, streams the model's answer, and stores the  *)
(* assistant message.  Any await may throw, which ends the call.  Message  *)
(* contents are abstracted to the prompt that produced them.              *)
(***************************************************************************)
EXTENDS Naturals, Sequences, SequencesExt

CONSTANTS
    Prompts,        \* the prompts executePrompt is called with, one per call
    Reply,          \* the content of every assistant message
    HistoryLimit,   \* loadConversationHistory's limit (20)
    MaxConcurrent,  \* calls for the session running at once
    MayFail         \* whether a repository call or the stream may throw

VARIABLES
    db,     \* the session's messages, in the order they were stored
    pc,     \* pc[p]: where call p is
    idx,    \* idx[p]: nextIndex, read at 105-106
    sent    \* sent[p]: the messages p's request gave the model

vars == <<db, pc, idx, sent>>

Running == {p \in Prompts : pc[p] \notin {"idle", "done", "failed"}}

(* toAnthropicMessage (part_013:17-32): role and content, the index gone. *)
ToAnthropicMessage(m) == [role |-> IF m.role = "user" THEN "user" ELSE "assistant",
                          content |-> m.content]

(* loadConversationHistory (part_013:60-71): the last limit messages, the *)
(* system ones dropped.                                                    *)
LoadConversationHistory(msgs) ==
    LET recent == SubSeq(msgs, IF Len(msgs) > HistoryLimit
                               THEN Len(msgs) - HistoryLimit + 1 ELSE 1, Len(msgs))
        kept   == SelectSeq(recent, LAMBDA m : m.role # "system")
    IN  [i \in DOMAIN kept |-> ToAnthropicMessage(kept[i])]

Init ==
    /\ db = <<>>
    /\ pc = [p \in Prompts |-> "idle"]
    /\ idx = [p \in Prompts |-> 0]
    /\ sent = [p \in Prompts |-> <<>>]

(* executePrompt is entered; 100-102 hold, the tool has its repositories. *)
Start(p) ==
    /\ pc[p] = "idle"
    /\ Cardinality(Running) < MaxConcurrent
    /\ pc' = [pc EXCEPT ![p] = "count"]
    /\ UNCHANGED <<db, idx, sent>>

(* An await of call p throws; the error leaves executePrompt.             *)
Throw(p) ==
    /\ MayFail
    /\ pc[p] \in {"count", "createUser", "history", "stream", "createAssistant"}
    /\ pc' = [pc EXCEPT ![p] = "failed"]
    /\ UNCHANGED <<db, idx, sent>>

(* findBySessionId resolves: nextIndex = existingMessages.length (105-106). *)
CountMessages(p) ==
    /\ pc[p] = "count"
    /\ idx' = [idx EXCEPT ![p] = Len(db)]
    /\ pc' = [pc EXCEPT ![p] = "createUser"]
    /\ UNCHANGED <<db, sent>>

(* The user message at nextIndex is stored (108-121).                      *)
CreateUserMessage(p) ==
    /\ pc[p] = "createUser"
    /\ db' = Append(db, [role |-> "user", content |-> p, index |-> idx[p]])
    /\ pc' = [pc EXCEPT ![p] = "history"]
    /\ UNCHANGED <<idx, sent>>

(* promptSession (part_013:80-108): the session is found, the history is  *)
(* loaded, the prompt is appended to it and the stream is opened.          *)
SendRequest(p) ==
    /\ pc[p] = "history"
    /\ sent' = [sent EXCEPT ![p] = LoadConversationHistory(db)
                                    \o <<[role |-> "user", content |-> p]>>]
    /\ pc' = [pc EXCEPT ![p] = "stream"]
    /\ UNCHANGED <<db, idx>>

(* stream.finalMessage() resolves (part_013:111-119).                       *)
StreamDone(p) ==
    /\ pc[p] = "stream"
    /\ pc' = [pc EXCEPT ![p] = "createAssistant"]
    /\ UNCHANGED <<db, idx, sent>>

(* The assistant message at nextIndex + 1 is stored and both ids are      *)
(* returned (126-181).                                                     *)
CreateAssistantMessage(p) ==
    /\ pc[p] = "createAssistant"
    /\ db' = Append(db, [role |-> "assistant", content |-> Reply, index |-> idx[p] + 1])
    /\ pc' = [pc EXCEPT ![p] = "done"]
    /\ UNCHANGED <<idx, sent>>

Next ==
    \E p \in Prompts :
        \/ Start(p) \/ Throw(p) \/ CountMessages(p) \/ CreateUserMessage(p)
        \/ SendRequest(p) \/ StreamDone(p) \/ CreateAssistantMessage(p)

Spec == Init /\ [][Next]_vars

-----------------------------------------------------------------------------
TypeOK ==
    /\ pc \in [Prompts -> {"idle", "count", "createUser", "history", "stream",
                           "createAssistant", "done", "failed"}]
    /\ idx \in [Prompts -> Nat]

(* The comment at part_013:90 ("Append new user prompt") and executePrompt *)
(* (93: "Creates user message, streams response") mean the model receives *)
(* the conversation so far and the new prompt once.  The history is loaded *)
(* after the user message was stored (claude-tool.ts:120), so it already   *)
(* ends with the prompt, and promptSession appends it a second time.       *)
PromptSentOnce ==
    \A p \in Prompts :
        pc[p] \in {"stream", "createAssistant", "done"} =>
            Cardinality({i \in DOMAIN sent[p] :
                            sent[p][i] = [role |-> "user", content |-> p]}) = 1

(* Messages of a session have distinct indices: nextIndex is read at 105  *)
(* and used again at 159, after two awaits, so a message stored by another *)
(* call in between takes the same index.                                   *)
IndicesUnique ==
    \A i, j \in DOMAIN db : i # j => db[i].index # db[j].index
=============================================================================
