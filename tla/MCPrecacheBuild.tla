---------------------------- MODULE MCPrecacheBuild ----------------------------
(* Two levels that share mesh m1; the first also places a mesh the reader    *)
(* cannot produce (m3), the second a mesh one of whose textures it cannot    *)
(* produce (t3).                                                             *)
EXTENDS PrecacheBuild, TLC

CONSTANTS l1, l2, m1, m2, m3, t1, t2, t3

MCOrder      == <<l1, l2>>
MCMeshesOf   == l1 :> {m1, m3} @@ l2 :> {m1, m2}
MCTexturesOf == m1 :> {t1} @@ m2 :> {t2, t3} @@ m3 :> {t1}
=============================================================================
