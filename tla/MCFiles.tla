------------------------------ MODULE MCFiles ------------------------------
(* SharedFiles on a few processes, lines and files. *)
EXTENDS SharedFiles, MCConsentStore

CONSTANTS
    d1, d2, bad, \* domains; bad may not be blocked
    o1, o2,      \* lines of others
    f1, f2       \* what the single-file build carries

MCPreset == <<d2, d1>>
MCTexts == {<<d2, d1, d2>>, <<bad>>}
MCPayload == <<f1, f2>>

\* A file nobody has touched; one with a block between lines of others; one that an
\* update left without the end of its block; and one with two blocks.
MCHostsFiles == {<<o1, o2>>, <<o1, StartTag, d1, EndTag, o2>>, <<o1, StartTag, d1>>,
                 <<StartTag, d1, EndTag, o1, StartTag, d2, EndTag>>}

\* What rests does so in one of its initial states.
MCInit ==
    /\ FilesInit
    /\ scene # "settings" => disk = Unreadable
    /\ scene # "hosts" => file = <<o1, o2>> /\ elevated = {}
    /\ scene # "payload" => beside

MCSpec == MCInit /\ [][FilesNext]_<<scene, vars, hosts, payload>>
=============================================================================
