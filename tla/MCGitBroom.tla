-------------------------- MODULE MCGitBroom --------------------------
(* The program is started on a link to w.  In w there are: a .git         *)
(* directory, a target that holds another project, which has that target *)
(* too, a link called like the other target, and a second project.       *)
(*                                                                        *)
(*   top - s -> w         w - g (.git, a directory)                      *)
(*       - w                - m (modules) - p - pg (.git, a file)        *)
(*       - o - of                             - pm (modules) - pf        *)
(*                          - l (dist) -> top                            *)
(*                          - q - qg (.git, a file)                      *)
(*                              - qm (modules, its path is too long)     *)
(*                              - qd (dist) - qe (a directory)           *)
(*                                          - qt (its path is too long)  *)
EXTENDS GitBroom, TLC

CONSTANTS top, s, w, o, of, g, m, p, pg, pm, pf, l, q, qg, qd, qe, qt, qm

MCPlaces == {top, s, w, o, of, g, m, p, pg, pm, pf, l, q, qg, qd, qe, qt, qm}
MCParent ==
    s :> top @@ w :> top @@ o :> top @@ of :> o
    @@ g :> w @@ m :> w @@ l :> w @@ q :> w
    @@ p :> m @@ pg :> p @@ pm :> p @@ pf :> pm
    @@ qg :> q @@ qd :> q @@ qe :> qd @@ qt :> qd @@ qm :> q
MCName ==
    [x \in MCPlaces |->
        IF x \in {g, pg, qg} THEN ".git"
        ELSE IF x \in {m, pm, qm} THEN "modules"
        ELSE IF x \in {l, qd} THEN "dist"
        ELSE IF x \in {s, qe} THEN "src"
        ELSE IF x \in {w, qt} THEN "work" ELSE "other"]
MCKind ==
    [x \in MCPlaces |->
        IF x \in {s, l} THEN "link"
        ELSE IF x \in {of, pg, pf, qg, qt} THEN "file" ELSE "dir"]
MCLinkTo == s :> w @@ l :> top
MCTargets == <<"modules", "dist">>

MCTrees ==
    {MCPlaces, MCPlaces \ {qt, qm}, MCPlaces \ {g, pf, qm},
     MCPlaces \ {p, pg, pm, pf, qt, qm}}
======================================================================
