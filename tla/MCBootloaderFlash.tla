-------------------------- MODULE MCBootloaderFlash --------------------------
(* Images for model checking BootloaderFlash. *)
EXTENDS BootloaderFlash

\* Good ones, with and without a manifest; one that does not load, one whose
\* first option does not load, and manifests that are too long, empty or malformed.
MCImages == {"old", "new", "bare", "broken", "bad_first", "many", "no_option", "malformed"}
MCLoads == MCImages \ {"broken"}
MCBare == {"bare"}
MCMalformed == {"malformed"}

Option(d, ok) == [desc |-> d, ok |-> ok]

MCManifest ==
  [i \in MCImages |->
     CASE i \in {"old", "broken"} -> <<Option("Android-IA", TRUE)>>
       [] i = "new" -> <<Option("Android-IA", TRUE), Option("Fastboot", TRUE)>>
       [] i = "bad_first" -> <<Option("Fastboot", FALSE), Option("Android-IA", TRUE)>>
       [] i = "many" -> <<Option("Android-IA", TRUE), Option("Fastboot", TRUE),
                          Option("Recovery", TRUE)>>
       [] i \in {"bare", "no_option"} -> <<>>
       [] i = "malformed" -> <<Option("Fastboot", TRUE)>>]
=============================================================================
