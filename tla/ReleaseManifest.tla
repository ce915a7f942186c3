--------------------------- MODULE ReleaseManifest ---------------------------
(***************************************************************************)
(* Release metadata: the release manifest and the OCI image archive that a *)
(* host imports when it cannot pull the image (release_manifest.py).       *)
(*                                                                         *)
(* A blob is known by its digest, and SHA-256 has no collisions: a digest  *)
(* stands for the one document with that digest (Content), and the SHA-256 *)
(* of an archive for the archive.  Texts are abstracted to whether they    *)
(* match their pattern.                                                    *)
(***************************************************************************)
EXTENDS Naturals, Sequences

CONSTANTS
  Digest,     \* digests that occur
  Content,    \* the document of each digest
  Archives,   \* image archives that occur
  NoArchive   \* a manifest of schema 1 names none

Platform == {"linux/amd64", "other"}

\* What an index or a manifest says of a blob.
Descriptor ==
  [digest : Digest, size : Nat, media : {"index", "manifest", "other"},
   platform : Platform]

\* An image index lists manifests, an image manifest one config and layers.
\* "other": a layer, or what is no JSON object of schema version 2.
Document ==
       [kind : {"index"}, size : Nat, manifests : Seq(Descriptor)]
  \cup [kind : {"manifest"}, size : Nat, config : Descriptor, layers : Seq(Descriptor)]
  \cup [kind : {"config"}, size : Nat, platform : Platform]
  \cup [kind : {"other"}, size : Nat]

\* "safe": its entries are files and directories with names that are relative,
\* stay inside and occur once.  "index": the manifests of its index.json.
Archive ==
  [safe : BOOLEAN, index : Seq(Descriptor),
   blobs : [Digest -> {"intact", "damaged", "absent"}]]

\* "fields": the field names, the source commit, the digests of exactly the
\* supported assets and the archive's name and platform are as they must be.
\* "pinned": the image is a digest in the repository.
Manifest ==
  [schema : 0..2, version : {"requested", "another"}, fields : BOOLEAN,
   pinned : BOOLEAN, image : Digest, archive : Archives \cup {NoArchive}]

ASSUME ReleaseAssumption ==
  /\ Content \in [Digest -> Document]
  /\ Archives \subseteq Archive
  /\ NoArchive \notin Archives

-----------------------------------------------------------------------------
(* The archive. *)

\* The blob is there, and has the digest and the size that its descriptor says.
VerifyDescriptorBlob(archive, descriptor) ==
  /\ archive.blobs[descriptor.digest] = "intact"
  /\ descriptor.size = Content[descriptor.digest].size

\* Mutated form: the config stands for the whole image.
VerifyConfigOnly(archive, digest) ==
  LET manifest == Content[digest] IN
  /\ manifest.kind = "manifest"
  /\ VerifyDescriptorBlob(archive, manifest.config)
  /\ Content[manifest.config.digest].kind = "config"
  /\ Content[manifest.config.digest].platform = "linux/amd64"
  /\ manifest.layers # <<>>

VerifyImageManifest(archive, digest) ==
  LET manifest == Content[digest] IN
  /\ manifest.kind = "manifest"
  /\ VerifyDescriptorBlob(archive, manifest.config)
  /\ Content[manifest.config.digest].kind = "config"
  /\ Content[manifest.config.digest].platform = "linux/amd64"
  /\ manifest.layers # <<>>
  /\ \A i \in DOMAIN manifest.layers : VerifyDescriptorBlob(archive, manifest.layers[i])

\* The places in the archive's index that name the image.
RootDescriptors(archive, image) ==
  {i \in DOMAIN archive.index : archive.index[i].digest = image}

\* _platform_matches, over the manifests of an image index.
PlatformDescriptors(digest) ==
  {i \in DOMAIN Content[digest].manifests :
     Content[digest].manifests[i].platform = "linux/amd64"}

\* The image index has one manifest for the platform, and that is verified.
VerifyImageIndex(archive, digest) ==
  /\ Content[digest].kind = "index"
  /\ \E i \in DOMAIN Content[digest].manifests :
       LET child == Content[digest].manifests[i] IN
       /\ PlatformDescriptors(digest) = {i}
       /\ VerifyDescriptorBlob(archive, child)
       /\ VerifyImageManifest(archive, child.digest)

VerifyOciArchive(archive, image) ==
  /\ archive.safe
  /\ \E i \in DOMAIN archive.index :
       LET root == archive.index[i] IN
       /\ RootDescriptors(archive, image) = {i}
       /\ VerifyDescriptorBlob(archive, root)
       /\ \/ root.media = "index" /\ VerifyImageIndex(archive, image)
          \/ root.media = "manifest" /\ VerifyImageManifest(archive, image)

-----------------------------------------------------------------------------
(* The manifest. *)

ValidateManifest(manifest) ==
  /\ manifest.schema \in {1, 2}
  /\ manifest.schema = 2 <=> manifest.archive # NoArchive
  /\ manifest.fields
  /\ manifest.version = "requested"
  /\ manifest.pinned

\* The command verify-image-archive.
VerifyImageArchive(manifest, archive) ==
  /\ ValidateManifest(manifest)
  /\ manifest.archive = archive
  /\ VerifyOciArchive(archive, manifest.image)

\* What a release run creates; it refuses an archive that it cannot verify.
CreatedManifests ==
  {manifest \in [schema : {2}, version : {"requested"}, fields : {TRUE},
                 pinned : {TRUE}, image : Digest, archive : Archives] :
     VerifyOciArchive(manifest.archive, manifest.image)}

-----------------------------------------------------------------------------
(* The reference: what the archive must hold, said without a procedure.    *)

\* The blobs that the manifest of one platform refers to.
Filesystem(digest) ==
  LET manifest == Content[digest] IN
  {manifest.config.digest} \cup {manifest.layers[i].digest : i \in DOMAIN manifest.layers}

\* The image and what it is made of, for linux/amd64.
Needed(image) ==
  IF Content[image].kind = "index"
    THEN LET children == {Content[image].manifests[i].digest :
                            i \in PlatformDescriptors(image)} IN
         {image} \cup children \cup UNION {Filesystem(digest) : digest \in children}
    ELSE {image} \cup Filesystem(image)

\* Nothing that a container of the image is made of is missing or damaged.
Whole(archive, image) == \A digest \in Needed(image) : archive.blobs[digest] = "intact"
=============================================================================
