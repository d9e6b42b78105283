--------------------------- MODULE MCRtpReception ---------------------------
(***************************************************************************)
(* RtpReception for TLC: the kinds of RTP parameters that take different   *)
(* paths through AddProducer and GetRtpStream.                             *)
(***************************************************************************)
EXTENDS RtpReception

CONSTANTS m1, m2, r1, r2, mediaPt, rtxPt

Enc(ssrc, rtxSsrc, rid) ==
    [ssrc |-> ssrc, rtxSsrc |-> rtxSsrc, hasRtx |-> rtxSsrc # 0, rid |-> rid,
     codec |-> mediaPt, rtxCodec |-> rtxPt]

MCParameters ==
    { \* one stream with RTX, all SSRCs given
      [mid |-> None, encodings |-> <<Enc(1, 2, None)>>],
      \* simulcast by SSRC, the second SSRC may clash
      [mid |-> None, encodings |-> <<Enc(2, 0, None), Enc(1, 0, None)>>],
      \* simulcast by RID with a MID
      [mid |-> m1, encodings |-> <<Enc(0, 0, r1), Enc(0, 0, r2)>>],
      \* another MID with one of these RIDs
      [mid |-> m2, encodings |-> <<Enc(3, 0, r1)>>],
      \* a RID and no MID
      [mid |-> None, encodings |-> <<Enc(0, 0, r1)>>],
      \* SSRC and RID
      [mid |-> None, encodings |-> <<Enc(1, 0, r1)>>],
      \* neither, only a MID
      [mid |-> m1, encodings |-> <<Enc(0, 0, None)>>],
      \* the same RID twice
      [mid |-> None, encodings |-> <<Enc(0, 0, r2), Enc(0, 0, r2)>>] }
=============================================================================
