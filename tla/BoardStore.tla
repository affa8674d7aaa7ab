----------------------------- MODULE BoardStore -----------------------------
(***************************************************************************)
(* What the protocol BoardStore promises of its cards, as the in-memory    *)
(* store keeps it: each operation changes one card, completely, at once.   *)
(* CardFiles, with its temporary files, failures and kills, implements it. *)
(***************************************************************************)
CONSTANTS
    Cards,      \* the ids of cards
    NoCard      \* there is no card with this id

Columns == {"inbox", "ready", "doing", "review", "done", "blocked"}

(* A card: its column, has it a blocked_at, a blocked_reason, an owner_role.*)
Card == [status : Columns, stamped : BOOLEAN, reason : BOOLEAN, owner : BOOLEAN]

VARIABLE cards      \* cards[c]: the card with id c

(* blocked_at is set by the move into BLOCKED, and by no other.            *)
Stored == {r \in Card : r.stamped = (r.status = "blocked")}

StoreInit == cards \in [Cards -> Stored \cup {NoCard}]

Put(c, r) == cards' = [cards EXCEPT ![c] = r]

AddCard(c) ==
    /\ cards[c] = NoCard
    /\ \E r \in Stored : r.status = "inbox" /\ ~r.reason /\ ~r.owner /\ Put(c, r)

(* move_card: the column, with blocked_at, and the fields that ride along. *)
MoveCard(c) ==
    /\ cards[c] # NoCard
    /\ \E r \in Stored : Put(c, r)

(* update_card: any field but the column.                                  *)
UpdateCard(c) ==
    /\ cards[c] # NoCard
    /\ \E reason, owner \in BOOLEAN :
            Put(c, [cards[c] EXCEPT !.reason = reason, !.owner = owner])

StoreNext == \E c \in Cards : AddCard(c) \/ MoveCard(c) \/ UpdateCard(c)

StoreSpec == StoreInit /\ [][StoreNext]_cards
=============================================================================
