--------------------------- MODULE MCPersonaPage ---------------------------
(* A small instance of PersonaPage for TLC: texts that were there before and *)
(* new ones, one written with a space, one too long, and one picture.        *)
EXTENDS PersonaPage, TLC

CONSTANTS blank, old, new, newSpaced, tooLong, pic

MCTexts == {blank, old, new, newSpaced, tooLong}

MCContents == [Fields -> MCTexts] \cup {pic, Tombstone}

MCSize == [c \in MCContents |-> IF c = Tombstone THEN 0 ELSE 1]

Rank == blank :> 0 @@ old :> 1 @@ new :> 2 @@ newSpaced :> 3 @@ tooLong :> 4

MCHash == [c \in MCContents |->
             CASE c = Tombstone -> 0
               [] c = pic       -> 1
               [] OTHER         -> 2 + 5 * Rank[c["name"]] + Rank[c["bio"]]]

MCTrim == [t \in MCTexts |-> IF t = newSpaced THEN new ELSE t]

MCChars == [t \in MCTexts |-> IF t = tooLong THEN 3 ELSE 2]

MCTyped == [name |-> {newSpaced, tooLong}, bio |-> {}]

MCBefore == {[name |-> old, bio |-> old]}

MCElsewhere ==
    {SlotState("profile", SignSlot(Owner, "profile", 2, [name |-> new, bio |-> blank])),
     SlotState("avatar", SignSlot(Owner, "avatar", 1, pic)),
     MarkerState(SignDestroy(Owner, 2))}
============================================================================
