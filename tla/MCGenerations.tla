--------------------------- MODULE MCGenerations ---------------------------
(* A provider with an exclusive worker and a consumer of it: both are        *)
(* installed, asked for again, the provider updated in the foreground and in *)
(* the background, and removed; a consumer joins the provider; shutdown      *)
(* meets an installation, and an update of the provider alone.               *)
EXTENDS Generations, TLC

CONSTANTS base, user, r1, r2

MCRequires == (base :> {}) @@ (user :> {base})

Ask(onBase, onUser, inBackground) ==
    [profile |-> (base :> onBase) @@ (user :> onUser), background |-> inBackground]

Both == Ask(r1, r1, FALSE)
Alone == Ask(r1, None, FALSE)

MCScenarios ==
    {<<Both, Both>>,
     <<Both, Ask(r2, r1, FALSE)>>,
     <<Both, Ask(r2, r1, TRUE)>>,
     <<Both, Ask(None, r1, FALSE)>>,
     <<Both, Shutdown>>,
     <<Alone, Ask(r1, r1, TRUE)>>,
     <<Alone, Ask(r2, None, FALSE), Shutdown>>}
=============================================================================
