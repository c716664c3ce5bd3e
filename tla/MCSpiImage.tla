----------------------------- MODULE MCSpiImage -----------------------------
(* Instances of SpiImage: up to three components in a few bytes of flash,   *)
(* with one or two copies each.                                             *)
EXTENDS SpiImage

OffsetLists == {<<o>> : o \in 0..OutputSize} \cup {<<0, 4>>, <<4, 1>>}

Origins == {"file", "@empty", "@manifest", "inline", "sha256"}

Sized(lens, sources) ==
  {[offsets |-> os, source |-> s, len |-> n] :
     os \in OffsetLists, s \in sources, n \in lens}

\* A component first, then a sha256, then a file or a generator.
SomeLayouts ==
  {<<>>} \cup {<<c>> : c \in Sized({0, 2}, {"no file", "unknown generator"})}
  \cup {<<c, d, e>> : c \in Sized({0, 2}, Origins), d \in Sized({1}, {"sha256"}),
                      e \in Sized({2}, {"file", "inline"})}
=============================================================================
