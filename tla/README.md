# flvRThls in TLA+

flvRThls converts an FLV file into HLS: MPEG-TS segments cut at key frames and
a playlist, with names from which a later run can write any range of the
segments again. Its writer also has the live path of the nginx-rtmp module it
was taken from: a sliding playlist fed by a stream of messages. This directory
holds TLA+ modules of both, the TLC configurations that check them, and TLAPS
proofs.

`tlc -config X.cfg M` runs a configuration, `tlapm M_proofs.tla` checks proofs.
`PROJECT.json` lists runs, properties, mutants (a plausible bug for each
property, written in the modules as an operator under the heading *Slip*), the
lines each definition models, hazards and theorems.

## The system

One process, one thread, no callbacks but synchronous ones. `main` reads its
options into a parser and the writer's context, makes one pass over the file
for its configuration and index (`flv_parse_av_config`), computes how many key
frames make a segment (`judge_segment_num`), and makes a second pass over a
range of it (`flv_get_raw_av`), which hands each tag to a handler.

| component | state | operations | hard about it |
|---|---|---|---|
| FLV reader (`flv.cpp`) | stream: state, current tag, its offset, bytes left of its body; position | open, header, tag, audio/video/metadata heads, body, trailer, reset, set offset | handlers leave bodies anywhere; AMF values end beyond them; seeking back; the two loops' ends; files cut short |
| tag handlers and segmenter (`dump_hls.cpp`) | counters of keys and segments, first/last time, playlist lines, seek flags | `hls_on_video_tag_ex`, `hls_on_audio_tag_ex`, `hls_segment_finish`, three segmenters | which tag cuts; names appended at opening and durations inserted at closing; early returns |
| HLS writer (`CHlsModule`, `_ex` operations) | audio buffer, audio clock, continuity counters, open file | open, close, flush, update, audio, video | buffer limits; alignment of audio; delay; order of flushing and closing |
| packetiser (`ngx_rtmp_mpegts.cpp`) | the frame's counter, position in the frame | `write_frame` | stuffing of 1, 2 and more bytes, with and without a clock; 16-bit length; termination |
| seek runs | the above, with counters from a name | the same program, other options | must reproduce another run from six numbers |
| command line, `main` | options, the stream, the number of keys per segment | pass 1, `judge_segment_num`, the ranges of `-x`/`-y` and `-s`/`-e`, pass 2 | errors of pass 1 are ignored; segment number 0; indexes without a check |
| AMF (`amf.cpp`) | values; linked lists; the name of the last array seen, in a static | read, size, write, collect the index; push, insert, delete, clear | two ways to end an array; a size computed from the value, not from what was read; list ends |
| live path (same file as the writer) | ring of fragments, playlist and key files, audio buffer, sequence headers | publish, `stream_eof`, `close_stream`, audio, video | time stamps that jump; files that cannot be opened; publishing again; one ring for the open fragment and the listed ones |
| AVC (`avc.cpp`) | bit position | exp-Golomb, SPS | width, cropping |
| dumps, types, build files | none | formatting, byte order | - |

The reader calls the handlers, the handlers read bodies through the reader and
call the segmenter, the segmenter opens and closes the writer's fragments, the
handlers give the writer frames, the writer calls the packetiser. The values
that flow back are return codes (an error ends the loop at once: nothing is
closed, `flv_get_raw_av` lines 756-795) and the continuity counter, which the
packetiser advances in the frame and the writer stores.

What makes each correct: the reader stays in step with the tags and reads
exactly its range; the segmenter puts every frame in the segment the key frames
say, and the playlist names these segments with these durations; the writer
delivers every audio frame once, in its fragment, not too late and close to its
own time; the packetiser's packets read back to the frame; a seek run's
segments are those of the whole run. Runs over neighbouring ranges meet, and
pass 1 hands pass 2 an index that holds what the metadata say. The live path's
playlist is a sliding window in which no listed fragment changes, each mark of
which is right, and whose pictures and audio arrive whole.

The live path is compiled in and reached by no command: `main` drives the `_ex`
operations only. It is modelled as what its caller, nginx's RTMP server, may do
with it, which is anything in any order.

## The modules

| module | models | checked by |
|---|---|---|
| `MpegTsPacket` | the layout of one packet, as functions of the frame and of what was sent | |
| `MpegTsClock` | the clock and the time stamps in their pieces | |
| `MpegTsFrame` | `write_frame` as a loop over one frame after another | `MCMpegTsFrame` |
| `MpegTsFrame_proofs` | theorems for frames of any size, and the arithmetic of digits and of a clock that turns | tlapm |
| `HlsContext` | the writer's operations as operators from context to context | |
| `HlsContext_proofs` | lemmas on joined sequences, on folds, on the writer's types and what each of its operations writes, and on two writers of which one began earlier; for the three modules of proofs below | tlapm |
| `HlsFragment` | the writer under any caller | `MCHlsFragment` |
| `HlsFragment_proofs` | theorems for any configuration and frames | tlapm |
| `HlsSegmenter` | the handlers and the segmenters as operators on the parser, on top of `HlsContext` | |
| `SegmentedStream` | abstract: frames go to segments, a list of them comes out | |
| `Transcoder` | a run over a file from its beginning | `MCTranscoder` (two configurations) |
| `Transcoder_proofs` | theorems for any file, the refinement of `SegmentedStream` and seek runs among them | tlapm |
| `SeekReplay` | two runs over the same tags, one from a segment on, on top of `Transcoder` | `MCSeekReplay` |
| `MainRun` | `main` over one file, one run after another | `MCMainRun` |
| `MainRun_proofs` | theorems for any index, options and number of runs | tlapm |
| `FlvReader` | the `flv_read_*` functions under both loops | `MCFlvReader` (two configurations) |
| `FlvReader_proofs` | theorems for any file and any handlers | tlapm |
| `AmfData` | reading, size, writing and the index, as functions on values and marks | |
| `Metadata` | the metadata tags of pass 1 | `MCMetadata` |
| `AmfList` | the linked list under any calls | `MCAmfList` |
| `AmfList_proofs` | theorem for any number of allocations | tlapm |
| `HlsWindow` | the ring of fragments, the playlist, and the attempt to read it back | |
| `NalUnits` | the access unit made from a message's NAL units | |
| `HlsLive` | the live path under any caller, on top of both and of `HlsContext` | `MCHlsLive` (two configurations) |
| `SlidingWindow` | abstract: a list that grows at its end and loses its oldest | |
| `HlsLive_proofs` | theorems for any configuration, messages and failures, the refinement of `SlidingWindow` among them | tlapm |

`HlsContext` and `HlsSegmenter` are written as functions because one tag's
handler makes up to five calls of the writer before the next tag is read:
nothing can come between them, and the composed modules take the whole handler
as one step. Fields have the names of the code (`aframe_pts`, `key_frame_count`,
`seek_flag1`); flags are 0 or 1.

**Packetiser.** `size`, `key`, `dts` and `cts` stand for a frame; a packet is a
record of the fields a demultiplexer needs: `cc`, adaptation length, header
bytes, the slice of the frame. `BeginFrame`, `WritePacket`, `EndFrame` are the
loop's entry, body and exit. `stamps` is what the first packet holds of clock and
times, in bytes of 2^8 and words of 2^15 that the runs make smaller: TLC's
numbers have 32 bits.

**Writer.** `used` is the number of bytes buffered, `held` the frames they
belong to, `segments` what was written to each file: `held` and `segments`
stand for bytes. `PacketCount`, which `HlsContext` takes for the number of
packets a frame needs, is what `MpegTsFrame` proves `write_frame` to write
(theorem `Continuity`).

**Segmenter.** A tag is its type, time, size and the read that fails, if any. A
playlist is a sequence of lines. The three segmenters share their steps, and
the options say which of them run: with neither `-t` nor `-m` everything is
written, as with both, although `cmdline.ggo` calls both "default 'off'".
`refused` holds the attempts to create a file that fail: each call of the
segmenter tries to create a segment, and the playlist as long as it has none, and
each of these attempts may fail by itself. The code looks at neither result.

**Reader.** A file is its tags' sizes, the AMF values in its metadata, and the
size it really has. An AMF value has the bytes the reader takes for it, the size
`amf_data_size` computes for it, which `flv_read_metadata` goes by, and the bytes
it needs to be read at all (`AmfType`): an associative array whose last name is
empty takes an element behind that name into the bargain, which its size does
not count. Where the reader looks for a tag at a place that is not one, any tag
may come.

**Main.** `phase` is the statement of `main` that comes next; a run starts
where the last one ended, as with a server that converts a file piece by
piece. The index is what pass 1 collected. `status` is "undefined" once
`keyframePos` is read beyond its end, a freed stream is used, a name of 500 bytes
or more is copied into the stream, or a metadata name that is no string is
printed (`odd`); "crashed" after a null pointer.

**AMF.** A file is a sequence of marks, the pieces the reader takes at once: a
type byte, a number, a name. A name has its length and its length as a C string,
since members are added through one. `AmfList` numbers the nodes in the order of
their allocation and keeps, as history, what the list is meant to be.

**Live path.** `ctx` has the fields of the code, in the ring `frags` too, and the
files it writes. A playlist is a sequence of lines, each a tag and a number;
durations are rounded to milliseconds as the code prints them. Each call names
the one file operation that fails in it, if any; `Crash` is the picture whose
copy in "111.264" cannot be opened, which ends the server: it starts again with
what is on disk. `codec` stands for the sequence
headers the RTMP codec module keeps; `heard`, `ctx.closed` and `ctx.failed` are
history.

## Runs

| run | question | bound |
|---|---|---|
| `packetiser` | Do the packets of a frame read back to it, with counters that run on? | sizes on both sides of every boundary of the layout; the layout depends on the size only through these; a clock of 512 ticks, times around its delay and its turns |
| `writer` | Is audio delivered once, in order, in time, aligned, never beyond the buffer? | 5 calls; a buffer of 400 bytes overflows after two frames |
| `segments` | Do playlist, durations, names and segments agree with each other and with the file; does the run implement `SegmentedStream`? | files of 5 tags: three segments at 1 or 2 keys each; times that go back |
| `failures` | What does a run leave behind when a read, an output file or the segment number is bad? | files of 4 tags, damage at any; every set of refusals among the first three attempts at either file; audio that runs over the end of the buffer, or just up to it, when its segment is missing |
| `seek` | Does a run from a segment write the same segments? | files of 6 tags, from any cut; audio times beyond half of the range of the names' numbers and beyond all of it |
| `reader` | Is the reader in step, exact about its range, and does it end? | files of 2 tags of all shapes, cut in 4 ways, handlers that read 1 or 2 bytes at a time; metadata whose size is what they take, and such that mislead the reader |
| `main` | Do runs over neighbouring ranges meet, and do they stay within the index? | two runs; indexes of no key frame to eight, one of unequal lists, one with odd metadata; ranges before, in and behind them; names of 499 and 500 bytes |
| `metadata` | When is a value's size what was read, does it read back, is the index right? | two tags; values of one or two members of every type, with every end there can be, nested, and cut at every mark |
| `amf_list` | Does the list keep its links? | 5 allocations: an insertion between two nodes, on either side, after deletions at both ends |
| `live` | Is the list a sliding window, is it published, are its marks, keys, audio and pictures right? | 4 messages, 2 publishes, 1 end, 1 failure; windows of 1 and 2 fragments, so that the ring wraps; four configurations that between them use every option modelled; a key is due twice only beyond 4 messages, so the part of `KeysRotate` on how long a key serves is what the theorem shows (and the mutant, in the run) |
| `live_restore` | Second finding: expected to be violated | as `live` |
| `reader_name_only` | First finding: expected to be violated | as `reader`, uncut |

`U32` (2^32 in the code) is 2^20 in the runs: large enough that no time stamp
reaches it unless a difference went below 0, which is the case of interest.
`U64` is 2^30 in the live runs for the same reason. Every run says
`CHECK_DEADLOCK FALSE` since a run of the converter ends, a crash and misused
memory end it too, and the packetiser, the writer, the live path and the list
wait for calls the bounds do not allow.

The properties, by the hazard they are for:

- `PacketsDemux`, `PacketsTile`, `CountersContinue`: stuffing, lengths, counters.
- `ClockSteady`: the clock is below 0 in the first 700 ms and stored modulo 2^33;
  the property is what a receiver needs of it, that decoding is always 1.4 s
  ahead of it.
- `AudioBufferBounded`: no path adds to the buffer without room while a
  fragment is open. With none open the flush does nothing and the code's last
  check leaves room for 7 bytes only; the handlers call it so when a fragment's
  file could not be created, and the property says where its claim stops
  (`CrashesExplained` goes on from there).
- `AudioAligned`, `AudioDelayBounded`, `AudioDelivered`, `ClosedFragmentsFinal`.
- `PlaylistListsSegments`, `DurationsRight`, `NamesLocate`, `NamesResume`,
  `ImplementsStream`: what four handlers and three segmenters keep together.
- `PublishedAllOrNothing`, `CrashesExplained`: the early returns and the files
  that cannot be created. The playlist on disk is empty, or from a run that read
  its whole file; then it names a segment for each place where one starts, those
  that do not exist too, and the pictures on the disk are all those of the others.
  A run crashes for one of four causes: a segment number of 0, a second sequence
  header before the first frame, a playlist no attempt could create, and audio
  that overran its buffer while its segment was missing.
- `SeekReplays`: from the cut on, the seek run counts keys and segments as the
  whole run does, and where the name held the clock and the counters (`exact`) it
  has that run's state and writes its segments. It crashes only for a second
  sequence header.
- `BodyAccounted`, `InSync`, `RangeExact`, `Advances`, `Terminates`. The second
  and third are about files without *misleading* metadata: a name whose size
  fills its tag (the first finding), or values that overrun their tag and whose
  size is not what was read. The last two hold of every file.
- `RunsTile`, `FollowersStayInside`: ranges computed from numbers nobody checks.
  Neighbouring ranges meet for every segment number but 0; and as long as each
  run begins where the file does, or with the number behind that of a run that
  did not come to the file's end, pass 2 never reads behind the index, though
  only the ends of ranges are checked. Runs that do not follow may, and so may
  pass 1 with the memory it uses, and `main` after it failed: the model has
  these outcomes, and no property says they cannot be.
- `SizeIsRead`, `WrittenReadsBack`, `IndexRight`: `flv_read_metadata` takes the
  size of the value for the bytes that were read, `amf_data_dump_hls` goes by
  the last name it saw. Each states the values for which that is right, and
  leaves out the others: arrays that end with an empty name and an element, and
  numbers of arrays without the index's names. The number of members written for
  an array, wrong from 128 on (`amf.cpp:621`), is one the reader ignores.
- `WellLinked`: every link of the list, from what the calls were, unless one of
  them inserted at an end.
- `ImplementsWindow`, `ListPublished`, `Timeline`, `PlayersHaveTheWindow`,
  `KeysRotate`, `AudioOnce`, `PicturesDecodable` of the live path. `Timeline` says
  that without a discontinuity mark a fragment begins where the one listed
  before it ends; `PlayersHaveTheWindow` that a player who goes through the lines
  of the playlist, as the format has it, finds each listed fragment with its
  own key, mark and duration, although a key's line stands only where the key
  changes. (`Played` is that player, and no code of the program.) `KeysRotate`
  allows a key whose file could not be opened: its fragments are encrypted with
  it all the same.

**Fairness.** Only `FlvReader` states any: `WF_vars(Next)`. There is one thread
and no blocking call but file reads, so a step that can be taken is taken; that
a handler returns after finitely many reads needs no fairness of its own, as
`ReadBody` cannot go on changing the state: the bytes left only shrink.

**Findings.** In `flv_read_metadata`, when the name takes the whole body, line
286 clears `current_tag_body_length` before line 287 subtracts it. Line 291
then seeks back by the whole name instead of by what it took beyond the body;
four bytes of the name are read as the trailer and the next tag's header comes
from inside this one. The two siblings, lines 313-314 and 205-206, have the
order right. Run `reader_name_only` shows it; `InSync` and `RangeExact` leave
such files out.

`restore_stream` opens the playlist it is to read with mode "wb" (line 1093 of
`ngx_rtmp_hls_module.cpp`), which empties it. With `continuous`, 1 by default
(line 92), a stream published again is to go on behind the fragments its
playlist lists, and starts at 0 and writes over them instead. Run `live_restore`
shows it. Another mode would not help: line 1109 asks `fread` for one item of the
buffer's size, and takes the number of items it answers with, 0 or 1, for a
number of bytes, so that no line is ever found. `RestoreStream` is therefore all
the function does: it empties the file and forgets the fragments.

**Met on the way**, in no run's property, and worth knowing:

- With `nested`, `open_fragment` makes the stream's directory each time and
  fails when it exists: only the first fragment of a publish opens.
- With keys and `frags_per_key` above 0, `open_fragment` compares the result of
  `fwrite(key, 16, 1, f)`, which is 1, with 16: the boundary that writes a key
  opens no fragment, and the next one that needs no new key does. With
  `frags_per_key` 1 every boundary needs one, and none ever opens.
- With no fragment open and the buffer full, the live audio handler copies as
  much of a frame as there is room for, where the converter's writes beyond the
  buffer (the last cause of `CrashesExplained`).
- If a key's file cannot be opened, `key_id` and `key_frags` are set already (lines
  689-690), and the next fragment opens with a key no player can get.
- Each attempt to create the playlist puts the header's lines behind those there
  are, and `TARGETDURATION` is then set in the first header only.
- A name of 500 bytes or more (`flv.cpp:621-624`), or metadata whose name is no
  string (`dump_hls.cpp:996`), misuse memory in a pass 1 that goes on to succeed.
- `close_stream` without `stream_eof` leaves the buffered audio where it is, and
  the next publish discards it. Publishing while a fragment is open leaks its
  file. A stream named ".." is refused after its context was cleared.
- A last NAL unit of one byte loses the whole picture.
- `amf_array` numbers of an array with neither name, after one that has it, go to
  the index (`IndexRight` excludes them). Pass 1 collects from any metadata
  tag, whatever its name.
- A name whose audio clock has wrapped looks like one that has not: that it is
  below 2^31 is not enough for a seek run to be the same, which the proof of
  `SeekRunsReplay` brought out (`exact` is about the clock, not the name).
- A list into which something was inserted at its end leaks it at `clear`, and a
  deletion leaves `first` or `last` on a freed node.

## Proofs

For all values of the constants (the assumptions are the `ASSUME`s of the
modules, which TLC evaluates on every run):

- `MpegTsFrame_proofs`: `TypeCorrect`, `Demultiplexable`, `Tiles`, `Continuity`,
  `ClockKept`, for frames of any size and times. The invariant that carries them is
  `LoopProgress` (the packets written so far are those of the sizes sent,
  the last of them ending where the loop is) together with each packet's
  fitting 184 bytes, which needs the case split over the layout's branches
  (header, clock, stuffing by 0, 1 or more bytes) once, as a lemma. `ClockKept`
  rests on arithmetic: a remainder by a product is made of its digits
  (`Digit`), and remainders may be taken before a sum and of whole turns
  (`Offset`, `Wrapped`), all from the uniqueness of division.
- `HlsContext_proofs` has no theorem of its own. The library's induction theorems
  take the statement as an operator, which the provers cannot instantiate;
  `Induction` states it of the set where a fact holds instead, and from it
  and the library's least-element theorem follow the equations of `FlattenSeq`,
  once. Everything about joined sequences of frames cites those. A fold over the
  items of a sequence is recursive over sets of their places; `FoldsExist` and
  `FoldSteps` make it what a loop is, one state after each item. The last part
  is about two contexts, one of which has the segments of the other behind some
  of its own (`Behind`): every operation of the writer keeps it so, with signed
  numbers, since a seek run's are options.
- `HlsFragment_proofs`: `TypeCorrect`, `BufferNeverOverflows`,
  `AlignmentBounded`, `DelayBounded`, `ClosedStayClosed`, `CountersRunOn`, `AudioIsDelivered`, for any
  buffer sizes, rates, frames and number of calls. The first four are inductive
  together; the fifth is about one step, and each operation leaves all fragments
  but the open one as they were. The last two carry a second invariant: the joined
  frames of each stream end where the context's counter stands, and the
  audio in all fragments, then the buffer, is what was taken. Each operation of
  `HlsContext` has a lemma for what it does to the buffer and to the frames.
- `FlvReader_proofs`: `TypeCorrect`, `BodiesAccounted`, `AlwaysAdvances`, `StaysInSync`,
  `ReadsTheRange`, for any file and any lengths a handler asks for.
  `BodyAccounted` is not inductive alone, as it says nothing between a tag's
  header and its handler; the invariant `Placed` says for each place of the loop
  where the reader is relative to the current tag, and that the tag's offset
  is the last one seen. `AlwaysAdvances` does not need the reader to be in step:
  going back is at most by a size, and a size never counts more than one byte
  beyond what the value needs, so that the next tag header is still behind this one's.
  `Synced` adds for each place that the current tag is one of the file's at
  its own offset, which going back in `flv_read_metadata` breaks for misleading
  metadata, and nothing else does (`Clear`); `Ranged`, which tags of the range
  have been seen when the reader stands there.
- `Transcoder_proofs`: `PlaylistNamesSegments`, `DurationsAreRight`,
  `NamesSayWhere`, `NamesCarryCounters`, `PublishedOnlyComplete`, `CrashesAreExplained`, `RunsAreTyped` for any
  file, options, segment number and buffer sizes. `PublishedOnlyComplete`,
  `CrashesAreExplained`, `NamesCarryCounters` and `RunsAreTyped` are for any refusals, too;
  the others, `RunsImplementStream` and `SeekRunsReplay` say what they say where
  every file can be created (`refused` is empty: with a segment missing nothing is
  written, while the abstract segments grow; with a playlist refused its header
  repeats). With refusals the invariant counts the attempts made at the
  playlist (`Tried`) and says which pictures are written, those that came while a
  segment that exists was open (`KeptIn`). The properties speak of tags and of
  the parser; what relates them is a sequence of *openings*, the key count
  and time at which each segment opened. `Story` says that in every state a
  run stands at its openings (`Entered`, with names, playlist and durations
  as these say: `Books`) with all tags accounted for (`Current`), or gave up there
  (`Left`), or crashed before its first segment (`Refused`, `Unstarted`) or with audio no
  segment took (`Overrun`), or is
  over (`Over`). `At` relates the openings to the tags: the next tag moves
  no count and no time of an earlier one (`AtKeeps`). Each kind of tag has two
  lemmas, one for what the handler does to the parser (`SoundHandled`,
  `PictureHandled`, ...) and one for the tags (`SoundRead`, ...); the first
  also give the steps of `SegmentedStream`. The one assumption on files that is not
  their format is that they have fewer than 2^32 tags: the key count in a
  name is a 32-bit number.
  `SeekRunsReplay` is about two runs. Its invariant `Replayed` is `Story` of the
  whole run, and one of three things about the seek run: it waits for its first
  frame (`Waiting`), it is beside the whole run (`Alongside`), or it is over or
  crashed, and what it wrote stays in the whole run's (`Halted`). Beside means
  that names agree in key and count (`Follows`), which needs the
  number of segments before the cut to be the number of keys divided by the
  segment number (`InStep`), and, if the name held its numbers, that
  the seek run's context is the whole run's without the segments before
  (`Shifted`). A seek run that starts at a key frame is beside the whole run
  at once, one that starts at a sequence header waits first.
- `HlsLive_proofs`: `LiveImplementsWindow`, for any window, any configuration,
  messages in any order and any failure of a file operation. A step keeps the
  list (`Retains`), or moves it by one as `SlidingWindow` says (`Moves`), or starts
  it anew (`Starts`). Every operation that does not close a fragment writes at
  most to the slot of the open one; `SlotsApart` shows that this is no listed
  fragment's, from the remainders of `frag + i` and `frag + nfrags` in a ring of
  `2 * winfrags + 1`. The invariant is the shape of the context and of the ring.
  `LiveTypeCorrect`, `PlaylistIsCurrent`, `FragmentsFollow`, `KeysAreRotated`, `AudioIsKept`
  need more of it (`Sound`): the times of the open fragment and the last
  listed one (`Times`), which keys were written and in which fragment each began
  (`KeyIds`, `Rotation`), that nothing has changed the window since its
  playlist was written (`Shown`), and where the audio taken so far is (`Told`).
  Time stamps are assumed to fit the 64-bit clock when multiplied by 90, as
  those of RTMP's 32 bits do.
  `PlaylistShowsWindow` and `PicturesAreDecodable` are about two folds, of a player
  over the lines of a playlist and of the writer over the NAL units of a message,
  and each rests on an invariant of its fold. After the lines of the first n
  fragments the player has these n and the key of the last (`Reads`, `Got`). Unit by
  unit, what is laid out so far begins a picture that can be decoded (`Drawn`,
  `Laid`), and `Complete` at the end; `Told` says it of every picture written.
  This is under the hypothesis `Playable`: the buffer has room for a delimiter and
  the parameter sets (one there is no room for is left out, and the picture is
  written without it), and a sequence header begins with its one SPS.
- `MainRun_proofs`: `NeighboursTile` for any index whose positions grow, and
  `PiecesStayInside` for any index at all: the end of a run that did not come to
  the file's end was checked, and is the start of the one that follows. What pass 2 reads is a function of
  a run's options and the number of keys per segment; `Recorded` keeps this for
  every run made, `Prepared` for the one in progress.
- `AmfList_proofs`: `LinksKept`. The invariant adds to the links that the items
  are the nodes allocated, each once: without it an insertion could link a node
  to itself, and a deletion could free one that is still listed.

Model-checked only:

- `Terminates`: liveness, which the prover does not do.
- `SizeIsRead`, `WrittenReadsBack`, `IndexRight`: AMF values nest, and `AmfData`
  reads them with RECURSIVE operators, in whose presence tlapm has no SMT solver.

## Limits

- A file whose first tag is a key frame, without the sequence header every AVC
  file starts with, opens two segments with it, both with key 0 in their names.
  `ImplementsStream` and `NamesLocate` include this case as the code has it;
  `SeekReplay` leaves it out, since a seek run opens one segment there.
- The audio clock goes through `int` options: from 2^31 ticks (6.6 hours) on it
  comes back negative, and from 2^32 ticks on as another time. `SeekReplays`
  then says what it says of indexes only, and the instance has names on all three
  sides (`exact`, `Survives`).
- A seek run that also writes a playlist (`-m` with `-s`) is not in the runs:
  `get_ts_name` and `get_ts_name_ex` disagree there by construction.
- `keyframePos` is taken to hold the positions of the key tags, as pass 1
  reads them from the metadata; the header's signature is taken to be right.
- What `FlvReader` assumes of the size `amf_data_size` computes is that it is no
  more than the bytes that were read, and no more than one byte behind what was
  needed to read the value (`AmfType`). `SizeIsRead` says when it is the number
  read: not for an associative array that ends with an empty name and a value
  other than the end marker (`amf.cpp:387`), nor for names with a NUL in them.
- `MainRun` computes with integers: `-x` times the segment number does not
  overflow for numbers below 2^31 / 6. What pass 1 prints of odd metadata is one
  outcome, "undefined".
- A segment's creation succeeds or fails as a whole: its 376 bytes of tables are
  not cut short, as `fwrite`'s result never looks like a failure.
- The live path: the files are those of a system whose `rename` replaces its
  target; the context's fresh memory is taken to be zero; names are shorter than
  the 1024 bytes of a path; a fragment's identifier is its number or a time.
- `amf_data` of a `malloc` that fails inside an object is not modelled; for a
  list a failed allocation changes nothing.
- `fwrite` errors are not modelled, since the code tests the number of
  items written for less than 0 and so never sees one.
- NAL units and ADTS headers are sizes. A picture's body that ends inside a NAL
  unit is the `damage` "body".

## Not modelled

- `avc.cpp`: reads bits from one buffer; its results go to the log.
- The dump callbacks, the text helpers and `flv_parse`, the loop that only
  they are called from; byte order and integer types; build files.
- `cmdline.cpp`, which gengetopt generates from `cmdline.ggo`: its results are
  the options of `MainRun`, `HlsSegmenter` and `SeekReplay`.
- `amf_object_get`, `_set` and `_delete`, clone and the text dump of
  `amf.cpp`, which nothing but each other calls.
- The live path's `cleanup_dir` and `cleanup`, whose bodies are commented out, and
  the configuration's defaults.
- The fixed PAT and PMT bytes of the packetiser, and its encryption, whose
  cipher is commented out.

## Plan

Done, in this order: packetiser, writer, segmenter and whole runs, the abstract
stream and its refinement, seek runs, the reader; then `main`, AMF values and
lists, the live path and the window it implements; the packetiser's clock.

1. `AvcBits`, `AdtsHeader`: exp-Golomb and ADTS fields as functions against reference definitions over bounded inputs.
2. A disk that is full, once there is a statement of what the program should do.
3. Proofs: the AMF properties, with `AmfData` written without RECURSIVE operators.
