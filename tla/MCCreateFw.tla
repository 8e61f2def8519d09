----------------------------- MODULE MCCreateFw -----------------------------
(* Model values for CreateFw.  Strings are byte sequences: "1" is <<49>>,  *)
(* "b" is <<98>>.  The offsets put the metadata lengths (0, 8, 9, 17, 18)  *)
(* on both sides of, and exactly on, the offset - 24 and offset - 16        *)
(* boundaries of the size check and of pad_metadata.                       *)
EXTENDS CreateFw

MCVersions        == {NoArg, <<>>, <<49>>}
MCCompatibilities == {NoArg, <<<<>>>>, <<<<98>>, <<98>>>>}
MCOffsets         == {16, 24, 25, 33, 34, 41}
MCFirmwares       == {<<170, 187>>, Unreadable}
MCHashTypes       == {"sha512", "md5"}
MCSignFiles       == {NoArg, Unreadable, "k1"}
MCKeys            == {"k1"}
MCBase            == 134250496   \* 0x08008000, the default --base
=============================================================================
