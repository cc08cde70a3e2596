-------------------------- MODULE MCFlashProtocol --------------------------
(* Model values for FlashProtocol: one block, a few commands. *)
EXTENDS FlashProtocol

\* the BIN base load address of firmware-parser.js, the default erase/write target
MCBlockAddr == 1073741824
\* three chunks, the last one short, each frame length below 256
MCBlockLen == 450
MCMaxChunkSize == 200
\* writeBlock's default maxChunkSize and a block of three chunks 256, 256, 88
MCDefaultChunkSize == 256
MCLongBlockLen == 600
\* two chunks, the last one short
MCTwoChunkSize == 300
\* a data byte that reads as RESP.OK when misplaced, and one that does not
MCDataBytes == {0, 9}
\* a data byte that never reads as RESP.OK
MCDataBytesNoZero == {9}
=============================================================================
