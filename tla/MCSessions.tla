------------------------------- MODULE MCSessions -------------------------------
(***************************************************************************)
(* Sessions with one conversation and two concurrent requests, and two     *)
(* promises of the repository's comments that the code does not keep.      *)
(***************************************************************************)
EXTENDS Sessions, TLC

LOCAL INSTANCE SequencesExt

CONSTANTS a, along, b      \* three texts, `along' longer than 80 characters

\* The text `along' goes on where `a' ends.
TextHeads == [t \in Texts |-> IF t = along THEN a ELSE t]

User(text) == [role |-> "user", text |-> text]
Other(text) == [role |-> "assistant", text |-> text]

\* A short question, a longer one that begins like it and has a context, and a
\* message that is not the user's.
TextBodies == {<<User(a)>>, <<Other(b), User(along)>>, <<Other(b)>>}
TextPosts == {User(b)}
TextReplies == {b, NoText}

RequestSymmetry == Permutations(Requests)

\* When a conversation is deleted its messages go with it (data_cleaner.py:37,
\* "Delete old conversations + cascade messages").
NoOrphans == \A c \in Convs \ rows : messages[c] = <<>>

\* The model is sent the stored history with the new messages at its end
\* (session_router.py:4-5, "automatically loads history, appends new
\* messages, runs the agent, and persists responses").
NewMessagesAppended ==
    \A r \in Requests : request[r].endpoint \in {"session", "stream"} =>
        IsSuffix(request[r].body, request[r].history)

===============================================================================
