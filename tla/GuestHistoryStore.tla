-------------------------- MODULE GuestHistoryStore --------------------------
(***************************************************************************)
(* What the guest history promises: one conversation and its messages, and *)
(* operations that each take effect at once on the history as it is.  The  *)
(* promise ends with a write by someone who had no lock (any more).        *)
(***************************************************************************)
EXTENDS Integers, Sequences

CONSTANTS
    Writers,        \* operations on the history of one guest
    First,          \* the conversation a returning guest starts with
    NoConversation,
    MaxMessages     \* MAX_MESSAGES_PER_CONVERSATION

VARIABLES
    history,    \* the store: its newest conversation and the messages in it
    spoiled     \* a write was made without the lock

\* A conversation and a message are named by the operation that made them.
ConversationIds == Writers \union {First, NoConversation}
History   == [conversation : ConversationIds, messages : Seq(Writers)]
Operation == [kind : {"create", "append", "truncate", "delete", "rename", "clear"},
              conversation : ConversationIds, from : Writers \union {First}]

EmptyStore == [conversation |-> NoConversation, messages |-> <<>>]

Positions(s, m) == {i \in DOMAIN s.messages : s.messages[i] = m}
LastOf(seq, n)  == IF Len(seq) > n THEN SubSeq(seq, Len(seq) - n + 1, Len(seq)) ELSE seq

\* An operation that is not applicable returns without writing.
Applies(op, s) ==
    \/ op.kind = "clear"
    \/ op.kind = "create" /\ s.conversation = NoConversation
    \/ /\ op.kind \in {"append", "truncate", "delete", "rename"}
       /\ s.conversation # NoConversation
       /\ s.conversation = op.conversation
       /\ op.kind = "truncate" => Positions(s, op.from) # {}

\* The store w's operation writes back after reading s (a rename: the same).
Effect(op, w, s) ==
    CASE op.kind \in {"clear", "delete"} -> EmptyStore
      [] op.kind = "create"   -> [conversation |-> w, messages |-> <<>>]
      [] op.kind = "append"   -> [s EXCEPT !.messages = LastOf(Append(@, w), MaxMessages)]
      [] op.kind = "truncate" -> [s EXCEPT !.messages = SubSeq(@, 1,
                                     (CHOOSE i \in Positions(s, op.from) : TRUE) - 1)]
      [] OTHER -> s

Operate(w, op) ==
    /\ Applies(op, history)
    /\ history' = Effect(op, w, history)
    /\ UNCHANGED spoiled

StoreInit ==
    /\ history \in {EmptyStore, [EmptyStore EXCEPT !.conversation = First]}
    /\ spoiled = FALSE

\* A rename changes nothing that is told apart here.
StoreNext ==
    \/ spoiled'
    \/ history' # history /\ \E w \in Writers, op \in Operation : Operate(w, op)

StoreSpec == StoreInit /\ [][StoreNext]_<<history, spoiled>>
=============================================================================
