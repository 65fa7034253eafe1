--------------------------- MODULE MCFacadeDrive ---------------------------
(***************************************************************************)
(* Three requests on one page over the facade: two writers whose calls of  *)
(* the Drive API interleave and a third that follows them or reads.        *)
(***************************************************************************)
EXTENDS FacadeDrive, TLC

CONSTANTS r1, r2, r3, n1, n2, b0, b1, b2

MCRequests == {r1, r2, r3}
MCNodes == {n1, n2}
MCMaxVersion == 4
MCVersionIds == MCNodes \X (1..MCMaxVersion)
MCVersionNo == [v \in MCVersionIds |-> v[2]]

\* The facade's own metadata and dto.rs's defaults, with the type the facade
\* puts in place of the default's schema.
DefaultMeta == [type |-> "application/vnd.sdkwork.canvas.page+json", schema |-> "1"]
MCFacadeMetas == {FacadeMeta}
MCMetas == {FacadeMeta, DefaultMeta, [DefaultMeta EXCEPT !.schema = FacadeSchema]}

Command(op, expect, source, body, meta) ==
    [op |-> op, expect |-> expect, source |-> source, meta |-> meta, body |-> body]

MCCalls ==
    {Command("create", None, None, b1, FacadeMeta),
     Command("create", None, None, b2, FacadeMeta),
     Command("update", None, None, b1, None), Command("update", None, None, b2, None),
     Command("read", None, None, None, None)}
    \union {Command("restore", None, <<n, 1>>, None, None) : n \in MCNodes}

MCReads == {Command("create", None, None, b1, DefaultMeta),
            Command("update", None, None, b2, FacadeMeta),
            Command("read", None, None, None, None)}

Symmetry == Permutations(MCRequests) \union Permutations(MCNodes)
=============================================================================
