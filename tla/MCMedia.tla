------------------------------ MODULE MCMedia ------------------------------
(***************************************************************************)
(* Instances of Media for TLC.  Blocks have two bytes; the contents are of *)
(* no, one, two and three bytes, some with what looks like a padding, and  *)
(* one ciphertext has lost its last byte.                                  *)
(***************************************************************************)
EXTENDS Media

CONSTANTS k1, k2, i1, i2, i3, r1, r2, photo, note, id1, id2, id3

Item(kind, text, ref, key) == [kind |-> kind, text |-> text, ref |-> ref, key |-> key]

Text == Item("text", TRUE, None, None)

\* A file, two photos, of which one comes with another's key, and a voice
\* without one; a photo alone; a text and a photo.
MCInbound ==
    {[id |-> id1, items |-> <<Item("file", FALSE, i3, Hex(k1)), Item("image", FALSE, i1, Hex(k1)),
                              Item("image", FALSE, i2, Hex(k1)), Item("voice", TRUE, i2, None)>>],
     [id |-> id2, items |-> <<Item("image", FALSE, i1, Hex(k1))>>],
     [id |-> id3, items |-> <<Text, Item("image", FALSE, i3, Hex(k1))>>]}

MCUploaded == [i \in {i1, i2, i3} |->
                 CASE i = i1 -> Encrypt(k1, <<1, 2, 1>>)
                   [] i = i2 -> Encrypt(k2, << >>)
                   [] i = i3 -> [key |-> k1, data |-> <<1, 2, 2>>]]

MCOwnFiles == [p \in {photo, note} |-> IF p = photo THEN <<2, 2>> ELSE <<1>>]

MCExtension == [p \in {photo} |-> "image"]

MCReplies == {<<photo, note>>, <<<<id1, "image">>>>}

MCGarbage == <<7, 7>>

MCConfigured == <<"c2c">>
=============================================================================
