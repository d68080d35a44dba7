---------------------------- MODULE MCNoteEdits ----------------------------
(* The instance for TLC: plans, section texts and the vault's notes.       *)
EXTENDS NoteInvariants

text == STRING
sanitised == "C#" :> "C"
lastWord == ("Kant" :> "Kant") @@ ("David Hume" :> "Hume")
entities == <<"Kant", "Hume">>
mine == <<"mine", "mine too">>

plan == {<<"A", "C#">>, <<"Kant", "A">>, <<"A", RelatedNotes>>}

code == <<Fence("tick"), Heading(2, 0, "A"), Para("Kant"), Fence("tick"), Para("x")>>
chunk == {<<Para("A"), Blank, Para("Kant")>>,
          code,
          <<Heading(1, 0, "S"), Para("Hume"), Heading(3, 0, "sub"), Link("Kant"), Link("Nobody")>>,
          <<Para("x"), Blank, Rule, Blank, Para("Kant"), Para("Hume")>>,
          <<InfoFence("tick"), Heading(2, 0, "A"), Fence("tick"), Para("Kant")>>}

reply == {<<1, "A">>, <<2, "A">>, <<2, "elsewhere">>, <<3, Topic>>}
related == {<<>>, <<"David Hume", "No [1]">>, <<"Kant">>}

\* What the theorems ask of the texts holds of these.
ASSUME Hypotheses == PlainChunks /\ SafeIsSafe /\ LastIsLast /\ UnwovenChunks
=============================================================================
