------------------------------- MODULE SpiImage -------------------------------
(***************************************************************************)
(* amd-spi-image.bbclass: do_compile lays the components of a SPI flash    *)
(* image out, validates their files, builds the manifest and assembles the *)
(* image in a buffer, the sha256 components last.  A byte of the image is  *)
(* <<i, k>>, byte k of component i, or Blank (0xFF).                       *)
(***************************************************************************)
EXTENDS Naturals, Sequences, FiniteSets

CONSTANTS Layouts,     \* the SPI_COMPONENTS lists: sequences of components
          OutputSize,  \* SPI_OUTPUT_SIZE
          FlashSize    \* SPI_IMAGE_SIZE

\* len is how many bytes the component's file or generator has to offer.
Component == [offsets : Seq(Nat) \ {<<>>},
              source : {"file", "no file", "@empty", "@manifest", "inline",
                        "sha256", "unknown generator"},
              len : Nat]

ASSUME LayoutsAssumption == Layouts \subseteq Seq(Component)
ASSUME SizeAssumption == OutputSize \in Nat \ {0} /\ FlashSize \in Nat \ {0}

VARIABLES components,  \* the list
          pc,
          at,          \* the loop's next component
          max_size,    \* max_size[i]: the room component i has
          size,        \* size[i]: comp["size"], 0 while unset
          manifest,    \* by offset, once it is generated
          buf,         \* the image
          written,     \* the components written so far
          digest       \* digest[i]: the image sha256 component i hashed

vars == <<components, pc, at, max_size, size, manifest, buf, written, digest>>

Blank == <<0, 0>>
Byte == Nat \X Nat
Comps == 1..Len(components)

Empty == [x \in 0..OutputSize-1 |-> Blank]

Entry == [comp : Nat, max_size : Nat, size : Nat, hashed : BOOLEAN]

\* The image never grows over SPI_OUTPUT_SIZE: no write passes its end.
TypeOK ==
  /\ components \in Seq(Component)
  /\ pc \in {"layout", "validate", "manifest", "assemble", "sha256", "done",
             "fatal"}
  /\ at \in Nat
  /\ max_size \in [Comps -> Nat]
  /\ size \in [Comps -> Nat]
  /\ \A o \in DOMAIN manifest : manifest[o] \in Entry
  /\ buf \in [0..OutputSize-1 -> Byte]
  /\ written \subseteq Comps
  /\ digest \in [Comps -> [0..OutputSize-1 -> Byte]]

Init ==
  /\ components \in Layouts
  /\ pc = "layout"
  /\ at = 1
  /\ max_size = [i \in Comps |-> 0]
  /\ size = [i \in Comps |-> 0]
  /\ manifest = <<>>
  /\ buf = Empty
  /\ written = {}
  /\ digest = [i \in Comps |-> Empty]

------------------------------------------------------------------------------
(* spi_parse_layout.                                                        *)

\* The pairs of a component and one of its offsets.
Regions == UNION {{<<i, k>> : k \in DOMAIN components[i].offsets} : i \in Comps}

OffsetOf(r) == components[r[1]].offsets[r[2]]

Offsets(i) == {components[i].offsets[k] : k \in DOMAIN components[i].offsets}

\* Where a region can end: at another's offset, or with the output file.
Ends == {OffsetOf(r) : r \in Regions} \cup {OutputSize}

BadLayout == \/ components = <<>>
             \/ \E r \in Regions : OffsetOf(r) >= OutputSize
             \/ \E r, s \in Regions : r # s /\ OffsetOf(r) = OffsetOf(s)

\* n bytes fit behind every offset of i, before the next one.
Fits(i, n) == \A o \in Offsets(i) : \A e \in Ends : o < e => o + n <= e

\* Mutant: the room behind the first offset is taken for all copies.
IsMaxSize_FirstOffset(i, n) ==
  LET o == components[i].offsets[1] IN
  /\ \A e \in Ends : o < e => o + n <= e
  /\ \E e \in Ends : o < e /\ o + n = e

\* n is the least distance from an offset of i to the next one.
IsMaxSize(i, n) == /\ Fits(i, n)
                   /\ \E o \in Offsets(i) : \E e \in Ends : o < e /\ o + n = e

Fatal == /\ pc' = "fatal"
         /\ UNCHANGED <<components, at, max_size, size, manifest, buf, written,
                        digest>>

LayoutFails == pc = "layout" /\ BadLayout /\ Fatal

ParseLayout ==
  /\ pc = "layout"
  /\ ~BadLayout
  /\ max_size' \in [Comps -> 1..OutputSize]
  /\ \A i \in Comps : IsMaxSize(i, max_size'[i])
  /\ pc' = "validate"
  /\ UNCHANGED <<components, at, size, manifest, buf, written, digest>>

------------------------------------------------------------------------------
(* spi_validate_files, spi_generate_manifest.                               *)

This == components[at]

IsFile == This.source \in {"file", "no file"}

BadFile == \/ This.source = "no file"
           \/ This.source = "file" /\ This.len > max_size[at]

ValidateFails == /\ pc = "validate"
                 /\ at \in Comps
                 /\ BadFile
                 /\ Fatal

ValidateFile ==
  /\ pc = "validate"
  /\ at \in Comps
  /\ ~BadFile
  /\ size' = [size EXCEPT ![at] = IF IsFile THEN This.len ELSE 0]
  /\ at' = at + 1
  /\ UNCHANGED <<components, pc, max_size, manifest, buf, written, digest>>

ValidateEnds ==
  /\ pc = "validate"
  /\ at \notin Comps
  /\ pc' = "manifest"
  /\ UNCHANGED <<components, at, max_size, size, manifest, buf, written,
                 digest>>

\* Mutant: the manifest gives a component its room for its size.
SizeEntry_Room(i) == max_size[i]

\* The size a manifest can give: what is known before the image is assembled.
SizeEntry(i) == size[i]

\* One entry for each offset, in their order; only the files, which are
\* read by now, have a hash.
GenerateManifest ==
  /\ pc = "manifest"
  /\ manifest' = [o \in {OffsetOf(r) : r \in Regions} |->
       LET i == CHOOSE c \in Comps : o \in Offsets(c)
       IN  [comp |-> i, max_size |-> max_size[i], size |-> SizeEntry(i),
            hashed |-> components[i].source = "file"]]
  /\ pc' = "assemble"
  /\ at' = 1
  /\ UNCHANGED <<components, max_size, size, buf, written, digest>>

------------------------------------------------------------------------------
(* spi_assemble, spi_write_component.                                       *)

\* The places component i writes n bytes to.
Extent(i, n) == UNION {o..(o + n - 1) : o \in Offsets(i)}

\* b with byte k of component i at k bytes behind each of its offsets.
Put(b, i, n) ==
  [x \in DOMAIN b \cup Extent(i, n) |->
     IF x \in Extent(i, n)
     THEN <<i, CHOOSE k \in 0..(n - 1) : \E o \in Offsets(i) : x = o + k>>
     ELSE b[x]]

WriteComponent ==
  /\ This.len <= max_size[at]
  /\ size' = [size EXCEPT ![at] = This.len]
  /\ buf' = Put(buf, at, This.len)
  /\ written' = written \cup {at}
  /\ at' = at + 1

Deferred(source) == source = "sha256"

Generated(source) == source \notin {"@empty", "unknown generator"}

Assemble ==
  /\ pc = "assemble"
  /\ at \in Comps
  /\ Generated(This.source)
  /\ ~Deferred(This.source)
  /\ WriteComponent
  /\ digest' = IF This.source = "sha256" THEN [digest EXCEPT ![at] = buf]
               ELSE digest
  /\ UNCHANGED <<components, pc, max_size, manifest>>

\* Reserved space stays blank, a sha256 component waits.
AssembleSkips ==
  /\ pc = "assemble"
  /\ at \in Comps
  /\ This.source = "@empty" \/ Deferred(This.source)
  /\ at' = at + 1
  /\ UNCHANGED <<components, pc, max_size, size, manifest, buf, written,
                 digest>>

AssembleFails ==
  /\ \/ pc = "assemble" /\ at \in Comps /\ ~Deferred(This.source)
     \/ pc = "sha256" /\ at \in Comps /\ Deferred(This.source)
  /\ \/ This.source = "unknown generator"
     \/ Generated(This.source) /\ This.len > max_size[at]
  /\ Fatal

AssembleEnds ==
  /\ pc = "assemble"
  /\ at \notin Comps
  /\ pc' = "sha256"
  /\ at' = 1
  /\ UNCHANGED <<components, max_size, size, manifest, buf, written, digest>>

Digest ==
  /\ pc = "sha256"
  /\ at \in Comps
  /\ Deferred(This.source)
  /\ WriteComponent
  /\ digest' = [digest EXCEPT ![at] = buf]
  /\ UNCHANGED <<components, pc, max_size, manifest>>

DigestSkips ==
  /\ pc = "sha256"
  /\ at \in Comps
  /\ ~Deferred(This.source)
  /\ at' = at + 1
  /\ UNCHANGED <<components, pc, max_size, size, manifest, buf, written,
                 digest>>

\* The sidecar and the image are written out.
WriteImage ==
  /\ pc = "sha256"
  /\ at \notin Comps
  /\ pc' = "done"
  /\ UNCHANGED <<components, at, max_size, size, manifest, buf, written,
                 digest>>

Next == \/ LayoutFails \/ ParseLayout
        \/ ValidateFails \/ ValidateFile \/ ValidateEnds \/ GenerateManifest
        \/ Assemble \/ AssembleSkips \/ AssembleFails \/ AssembleEnds
        \/ Digest \/ DigestSkips \/ WriteImage

Spec == Init /\ [][Next]_vars

------------------------------------------------------------------------------
(* Properties.                                                              *)

Holds(b, i, o, n) == \A k \in 0..(n - 1) : b[o + k] = <<i, k>>

\* Whatever is written after it, every copy of a component written to the
\* image is there in full ("Validates no overlaps, all offsets within
\* bounds, and calculates the maximum size available for each component").
NoComponentLost ==
  \A i \in written : \A o \in Offsets(i) : Holds(buf, i, o, size[i])

\* The manifest was made before the image; what it says of a component's
\* place and size, and that it has a hash of its bytes, is true of the image.
ManifestTrue ==
  pc = "done" =>
    \A o \in DOMAIN manifest :
      LET e == manifest[o] IN
      /\ e.size > 0 \/ e.hashed => /\ e.comp \in written
                                   /\ e.size = components[e.comp].len
                                   /\ Holds(buf, e.comp, o, e.size)
      /\ \A x \in o..(o + e.max_size - 1) : buf[x] = Blank \/ buf[x][1] = e.comp

\* "SHA256 must run after all other content is written": from the image that
\* a sha256 component hashed, the final one differs only in the bytes of
\* sha256 components themselves.
DigestCovers ==
  pc = "done" =>
    \A i \in Comps : components[i].source = "sha256" =>
      \A x \in DOMAIN buf :
        buf[x] = digest[i][x] \/ components[buf[x][1]].source = "sha256"

\* What the image says of itself, in the manifest and in the digests, is true
\* of it as it is flashed.
GeneratedTrue == ManifestTrue /\ DigestCovers
=============================================================================
