------------------------------- MODULE Frames -------------------------------
(***************************************************************************)
(* Video frames (patches/xmv_vita.c) and the textures that are drawn       *)
(* (patches/texture_palette.h, texture_decomp.h).                          *)
(*                                                                         *)
(* The decoder's GetNextFrame would convert the frame with sws_scale and   *)
(* copy it.  Both are replaced: sws_scale notes where the planes are, and  *)
(* the hook on GetNextFrame copies them, in rows as long as the decoder's, *)
(* once the decoder is back.  The upload of a texture has to read its rows *)
(* at the length they have, and the shader to show only the picture.       *)
(***************************************************************************)
EXTENDS Naturals, Sequences

CONSTANTS
  Buffers,      \* the decoder's picture buffers
  MaxFrames     \* bound: frames that are decoded

VARIABLES
  decoded,      \* history: number of the last frame that was decoded
  picture,      \* buffer -> the frame in it, 0 if none
  last_src,     \* where the planes of the frame are, or Null
  last_height,
  cur_video_width,
  framePc,      \* "closed", "idle", "decoding" or "copy"
  output,       \* history: the frames copied to the game's texture
  rows,         \* the length of a row in that texture, 0 before the first frame
  locked,       \* the pitch the game was told
  scale,        \* register 1 of the shader: the part of a row that is shown
  drawPc,       \* "no", "shader" once one is selected, then the texture's kind
  drawn         \* history: the last draw, if there was one

playVars == <<decoded, picture, last_src, last_height, cur_video_width, framePc, output, rows,
              locked>>
drawVars == <<scale, drawPc, drawn>>
frameVars == <<playVars, drawVars>>

Null == 0
ASSUME BuffersAssumption == Null \notin Buffers /\ MaxFrames \in Nat

\* prev_src0 is never set to anything else.
prev_src0 == Null

Whole == <<1, 1>>

FramesInit ==
  /\ decoded = 0 /\ picture = [b \in Buffers |-> 0]
  /\ last_src = Null /\ last_height = 0 /\ cur_video_width = 0
  /\ framePc = "closed" /\ output = <<>> /\ rows = 0 /\ locked = 0
  /\ scale = Whole /\ drawPc = "no" /\ drawn = {}

-----------------------------------------------------------------------------
(* A frame *)

\* The row of a plane as the decoder has it, padded ("672 or 880").
srcStride(width) == IF width = 640 THEN 672 ELSE 880

\* sws_getContext_interceptor: a video begins, and the game makes its texture.
sws_getContext ==
  /\ framePc = "closed" /\ drawPc = "no"
  /\ cur_video_width' \in {640, 840}
  /\ framePc' = "idle" /\ rows' = 0
  /\ UNCHANGED <<decoded, picture, last_src, last_height, output, locked, drawVars>>

CloseVideo ==
  /\ framePc = "idle" /\ drawPc = "no"
  /\ framePc' = "closed"
  /\ picture' = [b \in Buffers |-> 0]
  /\ UNCHANGED <<decoded, last_src, last_height, cur_video_width, output, rows, locked, drawVars>>

\* The pitch of a texture that is not as wide as it has to be on an Xbox.
LockedPitch(pitch, width) == IF pitch = 4096 THEN 4 * width ELSE pitch

\* The game locks its texture, and wants the next frame in it.
D3DTexture_LockRect ==
  /\ framePc = "idle" /\ drawPc = "no"
  /\ \E pitch \in {4 * cur_video_width, 4096} :
       locked' = LockedPitch(pitch, cur_video_width)
  /\ framePc' = "decoding"
  /\ UNCHANGED <<decoded, picture, last_src, last_height, cur_video_width, output, rows, drawVars>>

\* The decoder has a frame in one of its buffers and calls sws_scale.
sws_scale ==
  /\ framePc = "decoding" /\ decoded < MaxFrames
  /\ decoded' = decoded + 1
  /\ \E b \in Buffers :
       /\ picture' = [picture EXCEPT ![b] = decoded']
       /\ last_src' = b
  /\ last_height' = 1
  /\ framePc' = "copy"
  /\ UNCHANGED <<cur_video_width, output, rows, locked, drawVars>>

\* It has no frame this time.
NoFrame ==
  /\ framePc = "decoding"
  /\ framePc' = "copy"
  /\ UNCHANGED <<decoded, picture, last_src, last_height, cur_video_width, output, rows, locked,
                 drawVars>>

\* Mutant: the pointer stays.
KeepPointer == last_src

AfterCopy == Null

CopyFrame ==
  /\ framePc = "copy"
  /\ last_src # prev_src0 /\ last_height > 0
  /\ output' = Append(output, picture[last_src])
  /\ rows' = srcStride(cur_video_width)
  /\ last_src' = AfterCopy
  /\ framePc' = "idle"
  /\ UNCHANGED <<decoded, picture, last_height, cur_video_width, locked, drawVars>>

SkipCopy ==
  /\ framePc = "copy"
  /\ last_src = prev_src0
  /\ framePc' = "idle"
  /\ UNCHANGED <<decoded, picture, last_src, last_height, cur_video_width, output, rows, locked,
                 drawVars>>

-----------------------------------------------------------------------------
(* A draw: the game selects the shader and sets the texture, which is        *)
(* uploaded when the command is read.                                        *)

\* XGSetTextureHeader gives a palette texture its width as its pitch; below
\* 64 there is padding.
HeaderRow(width) == IF width > 64 THEN width ELSE 64

VideoTexture == [format |-> "video", width |-> cur_video_width, row |-> rows]

GameTextures ==
  {[format |-> "palette", width |-> w, row |-> HeaderRow(w)] : w \in {32, 64, 128, 640}}
    \cup {[format |-> "other", width |-> 640, row |-> 4 * 640]}

\* hackedW, videoStride
hackedW(width) == IF width = 640 THEN 672 ELSE 880

\* The length of a row as ProcessAndUploadTexture reads it: a narrow palette
\* texture row by row (or by the game, without memory), a wide one at once.
RowRead(t) ==
  IF t.format = "palette" /\ (t.width = t.row \/ t.width >= 64) THEN t.width
  ELSE IF t.format = "video" THEN hackedW(t.width) ELSE t.row

D3DDevice_SelectVertexShader ==
  /\ framePc \in {"idle", "closed"} /\ drawPc = "no"
  /\ scale' = Whole /\ drawPc' = "shader"
  /\ UNCHANGED <<playVars, drawn>>

\* Only the code that draws the video comes here by the call site tested for.
D3DDevice_SetTexture ==
  /\ drawPc = "shader"
  /\ \/ /\ framePc = "idle" /\ rows # 0
        /\ scale' = <<cur_video_width, hackedW(cur_video_width)>>
        /\ drawPc' = "video"
     \/ drawPc' = "game" /\ UNCHANGED scale
  /\ UNCHANGED <<playVars, drawn>>

ProcessAndUploadTexture ==
  /\ drawPc \in {"video", "game"}
  /\ \E t \in IF drawPc = "video" THEN {VideoTexture} ELSE GameTextures :
       drawn' = {[texture |-> t, read |-> RowRead(t), shown |-> scale]}
  /\ drawPc' = "no"
  /\ UNCHANGED <<playVars, scale>>

FramesNext ==
  \/ sws_getContext \/ CloseVideo \/ D3DTexture_LockRect \/ sws_scale \/ NoFrame
  \/ CopyFrame \/ SkipCopy
  \/ D3DDevice_SelectVertexShader \/ D3DDevice_SetTexture \/ ProcessAndUploadTexture


-----------------------------------------------------------------------------
(* Properties *)

\* A frame fits in the texture it is copied to: three planes, of which two
\* have a quarter of the size, in rows of four bytes for each pixel.
FrameFits == framePc = "copy" => 3 * srcStride(cur_video_width) <= 2 * locked

\* The rows of a texture are read at the length they have, and what is shown
\* of them is as wide as the picture.
DrawnStraight ==
  \A d \in drawn :
    /\ d.read = d.texture.row
    /\ d.shown = IF d.texture.format = "video" THEN <<d.texture.width, d.texture.row>> ELSE Whole

\* Each frame that was decoded reaches the game once, in order, whichever
\* buffers the decoder uses, over calls without a frame and over the end of
\* one video and the start of another, and every texture is drawn straight.
FramesInOrder ==
  /\ framePc \in {"idle", "closed"} => output = [i \in 1 .. decoded |-> i]
  /\ FrameFits
  /\ DrawnStraight
=============================================================================
