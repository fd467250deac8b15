----------------------------- MODULE MCUrlService -----------------------------
(***************************************************************************)
(* Small instances of UrlService.  The aliases are the real generator's,   *)
(* in base 2, so that the shortest aliases are shorter than MinLength as   *)
(* the shortest base-62 aliases are shorter than aliasSchema's 4.          *)
(***************************************************************************)
EXTENDS UrlService, Sequences

CONSTANTS p1, p2, g1, w1, w2, u1, u2, u3, MinLength

Generator == INSTANCE Base62 WITH Base <- 2

MCPosts == {p1, p2}
MCGets == {g1}

\* The GET shares its process, and a pool of one client, with one of the POSTs.
MCHost == [r \in {p1, p2, g1} |-> IF r = p2 THEN w2 ELSE w1]

MCAliasOf == [i \in 1 .. MaxId |-> Generator!generateAlias(i)]
MCAliases == {Generator!generateAlias(i) : i \in 1 .. MaxId + 1}
MCRoutable == {a \in MCAliases : Len(a) >= MinLength}

\* The sanitizer rewrites u2 to u1 and leaves the others; u3 is no http(s) URI.
MCClean == [u \in {u1, u2, u3} |-> IF u = u2 THEN u1 ELSE u]

================================================================================
