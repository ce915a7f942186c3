------------------------------- MODULE MCUpdate -------------------------------
(* A release whose image is an index of two platforms, and archives of it:    *)
(* whole ones in both forms, an incomplete, a damaged and an unsafe one.      *)
EXTENDS Update, TLC

MCDigest == {"index", "amd64", "arm64", "config", "layer"}

D(digest, media, platform) ==
  [digest |-> digest, size |-> 1, media |-> media, platform |-> platform]

MCContent ==
  "index" :> [kind |-> "index", size |-> 1,
              manifests |-> <<D("arm64", "manifest", "other"),
                              D("amd64", "manifest", "linux/amd64")>>]
  @@ "amd64" :> [kind |-> "manifest", size |-> 1,
                 config |-> D("config", "other", "other"),
                 layers |-> <<D("layer", "other", "other")>>]
  @@ "arm64" :> [kind |-> "manifest", size |-> 1,
                 config |-> D("config", "other", "other"),
                 layers |-> <<>>]
  @@ "config" :> [kind |-> "config", size |-> 1, platform |-> "linux/amd64"]
  @@ "layer" :> [kind |-> "other", size |-> 1]

Holding(present) ==
  [digest \in MCDigest |-> IF digest \in present THEN "intact" ELSE "absent"]

Made(safe, index, blobs) == [safe |-> safe, index |-> index, blobs |-> blobs]

Root == D("index", "index", "other")
Direct == D("amd64", "manifest", "linux/amd64")

MCArchives ==
  {Made(TRUE, <<Root>>, Holding(MCDigest \ {"arm64"})),
   Made(TRUE, <<Root>>, Holding(MCDigest \ {"layer"})),
   Made(TRUE, <<Root>>, [Holding(MCDigest) EXCEPT !["config"] = "damaged"]),
   Made(TRUE, <<Direct>>, Holding({"amd64", "config", "layer"})),
   Made(FALSE, <<Root>>, Holding(MCDigest))}

\* Releases as they are created, older ones without an archive, one of another
\* version, and some that something else than the release run put together.
MCManifests ==
  LET first == CHOOSE archive \in MCArchives : TRUE
      one == [schema |-> 2, version |-> "requested", fields |-> TRUE,
              pinned |-> TRUE, image |-> "index", archive |-> first] IN
  CreatedManifests
  \cup {[one EXCEPT !.archive = archive] : archive \in MCArchives}
  \cup {[one EXCEPT !.schema = 1, !.archive = NoArchive],
        [one EXCEPT !.version = "another"]}

\* The versions but the first differ in their names only.
NewVersions == Permutations(Versions \ {First})
=============================================================================
