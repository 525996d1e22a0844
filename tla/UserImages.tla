----------------------------- MODULE UserImages -----------------------------
(***************************************************************************)
(* The pictures a shopper sends along with a question.  She chooses files  *)
(* into the composer; when the message is sent each one is uploaded        *)
(* (AttachmentUpload) and the message refers to it by its number, or, if   *)
(* only its data is left and the upload fails, carries it inline.  The     *)
(* gateway stores the references and shows the model the files.  A message *)
(* that is edited or sent again reuses its pictures.  Text, file names,    *)
(* types and the file dialog are left out; bytes and pixels are one        *)
(* weight; a reference whose file cannot be read, which the gateway passes *)
(* over, is AttachmentUpload's subject.                                    *)
(***************************************************************************)
EXTENDS Integers, Sequences, SequencesExt, MessageLists

CONSTANTS
    Pictures,
    Weight,         \* per picture
    MaxWeight,      \* IMAGE_UPLOAD_MAX_TOTAL_BYTES and _PIXELS
    MaxCount,       \* IMAGE_UPLOAD_MAX_COUNT
    MaxSends,       \* bounds the messages that are sent
    MaxFiles        \* bounds the uploads

ASSUME ImagesAssumption ==
    /\ Weight \in [Pictures -> Nat] /\ MaxWeight \in Nat /\ MaxCount \in Nat \ {0}
    /\ MaxSends \in Nat /\ MaxFiles \in Nat

VARIABLES
    composer,       \* imageAttachments
    reading,        \* isReadingAttachments, and what is read for which purpose
    transcript,     \* the messages on the screen
    sending,        \* per message: how far it is
    busy,           \* the message isLoading is set for, 0 for none
    misnumbered,    \* history: a message was told the files of another one's pictures
    reachable,      \* the secure socket is open, or opens when it is needed
    files,          \* the uploaded files; a file is named by its number
    savedRows       \* the stored messages

imageVars == <<composer, reading, transcript, sending, busy, misnumbered, reachable, files,
               savedRows>>

Sends == 1..MaxSends
Older == 0          \* a message of an older conversation, stored with its pictures inline
NoFile == 0
Attachment == [pic : Pictures, file : 0..MaxFiles, data : BOOLEAN]
Part == [pic : Pictures, file : 0..MaxFiles]
NotReading == [for |-> "nothing", at |-> 0, send |-> 0, pics |-> <<>>]
NotSent == [at |-> "no", attachments |-> <<>>, parts |-> <<>>, restore |-> FALSE, replaces |-> <<>>,
            seen |-> <<>>]

ImagesTypeOK ==
    /\ composer \in Seq(Attachment) /\ reading.for \in {"nothing", "composer", "resend"}
    /\ \A i \in DOMAIN transcript :
           transcript[i].send \in 0..MaxSends /\ transcript[i].pics \in Seq(Part)
    /\ \A s \in Sends : /\ sending[s].at \in {"no", "preparing", "connecting", "sent", "over"}
                        /\ sending[s].attachments \in Seq(Attachment)
                        /\ sending[s].parts \in Seq(Part) /\ sending[s].seen \in Seq(Pictures)
    /\ busy \in 0..MaxSends /\ misnumbered \in BOOLEAN /\ reachable \in BOOLEAN
    /\ files \in Seq(Pictures) /\ Len(files) <= MaxFiles

UserMessage(send, pics) == [send |-> send, role |-> "user", pics |-> pics]
AnswerTo(send) == [send |-> send, role |-> "assistant", pics |-> <<>>]
Pic(p, file) == [pic |-> p, file |-> file]

ImagesInit ==
    /\ composer = <<>> /\ reading = NotReading /\ sending = [s \in Sends |-> NotSent]
    /\ busy = 0 /\ misnumbered = FALSE /\ reachable = TRUE /\ files = <<>>
    /\ \E pics \in {<<>>} \union {<<Pic(p, NoFile), Pic(q, NoFile)>> : p, q \in Pictures} :
           savedRows = IF pics = <<>> THEN <<>> ELSE <<UserMessage(Older, pics)>>
    /\ transcript = savedRows

SetAt(s, place) == [sending EXCEPT ![s].at = place]
PicsOf(parts) == [i \in DOMAIN parts |-> parts[i].pic]
WeightOf(pics) == FoldLeft(LAMBDA sum, p : sum + Weight[p], 0, pics)
References(parts) == MembersAt(parts, {i \in DOMAIN parts : parts[i].file # NoFile})
-----------------------------------------------------------------------------
(* The composer *)

\* handleImageAttachmentFiles: as many as there are places, of those the ones that fit.
FittingFiles(chosen) ==
    LET offered == Slice(chosen, MaxCount - Len(composer))
        taken[n \in 0..Len(offered)] ==
            IF n = 0 THEN <<>>
            ELSE IF WeightOf(PicsOf(composer) \o taken[n - 1]) + Weight[offered[n]] <= MaxWeight
                 THEN Append(taken[n - 1], offered[n]) ELSE taken[n - 1]
    IN taken[Len(offered)]
SelectImages(chosen) ==
    /\ reading = NotReading /\ Len(composer) < MaxCount /\ FittingFiles(chosen) # <<>>
    /\ reading' = [NotReading EXCEPT !.for = "composer", !.pics = FittingFiles(chosen)]
    /\ UNCHANGED <<composer, transcript, sending, busy, misnumbered, reachable, files, savedRows>>

\* readImageAttachmentFile: a file that is no image, or too large a one, is left out.
ImagesRead(readable) ==
    /\ reading.for = "composer" /\ reading' = NotReading
    /\ LET read == MembersAt(reading.pics,
                          {i \in DOMAIN reading.pics : reading.pics[i] \in readable})
       IN composer' = composer \o [i \in DOMAIN read |->
                                      [pic |-> read[i], file |-> NoFile, data |-> FALSE]]
    /\ UNCHANGED <<transcript, sending, busy, misnumbered, reachable, files, savedRows>>
RemoveImageAttachment(i) ==
    /\ composer' = RemoveAt(composer, i)
    /\ UNCHANGED <<reading, transcript, sending, busy, misnumbered, reachable, files, savedRows>>
-----------------------------------------------------------------------------
(* A message is sent: sendMessagePayload *)

NextSend(s) == sending[s].at = "no" /\ \A q \in 1..s - 1 : sending[q].at # "no"

\* validateOutgoingAttachmentBudget, then everything up to the first upload.
SendPayload(s, attachments, kept, restore, replaces) ==
    /\ NextSend(s) /\ WeightOf(PicsOf(attachments)) <= MaxWeight
    /\ transcript' = Append(kept, UserMessage(s, [i \in DOMAIN attachments |->
                                                     Pic(attachments[i].pic, NoFile)]))
    /\ busy' = s
    /\ sending' = [sending EXCEPT ![s] = [NotSent EXCEPT !.at = "preparing", !.restore = restore,
                       !.attachments = attachments, !.replaces = replaces]]
SendComposed(s) ==
    /\ busy = 0 /\ reading = NotReading /\ composer # <<>>
    /\ SendPayload(s, composer, transcript, TRUE, <<>>) /\ composer' = <<>>
    /\ UNCHANGED <<reading, misnumbered, reachable, files, savedRows>>

\* prepareOutgoingUserParts, one attachment at a time: a picture that was uploaded is
\* referred to, another is uploaded now (the upload may succeed without the browser
\* learning of it); failing that its data is sent along.
NextAttachment(s) == sending[s].attachments[Len(sending[s].parts) + 1]
Preparing(s) ==
    sending[s].at = "preparing" /\ Len(sending[s].parts) < Len(sending[s].attachments)
TakePart(s, file) ==
    LET i == Len(sending[s].parts) + 1
    IN sending' = [sending EXCEPT ![s].attachments[i].file = file,
                       ![s].parts = Append(@, Pic(NextAttachment(s).pic, file))]
PrepareReference(s) ==
    /\ Preparing(s) /\ NextAttachment(s).file # NoFile
    /\ TakePart(s, NextAttachment(s).file)
    /\ UNCHANGED <<composer, reading, transcript, busy, misnumbered, reachable, files, savedRows>>
UploadAttachment(s) ==
    /\ Preparing(s) /\ NextAttachment(s).file = NoFile /\ Len(files) < MaxFiles
    /\ files' = Append(files, NextAttachment(s).pic) /\ TakePart(s, Len(files) + 1)
    /\ UNCHANGED <<composer, reading, transcript, busy, misnumbered, reachable, savedRows>>
Uploaded(s) == files' \in {files} \union
    (IF Len(files) < MaxFiles THEN {Append(files, NextAttachment(s).pic)} ELSE {})
SendInline(s) ==
    /\ Preparing(s) /\ NextAttachment(s).file = NoFile /\ NextAttachment(s).data
    /\ Uploaded(s) /\ TakePart(s, NoFile)
    /\ UNCHANGED <<composer, reading, transcript, busy, misnumbered, reachable, savedRows>>

GiveUp(s) ==
    /\ sending' = SetAt(s, "over") /\ busy' = 0
    /\ transcript' = IF transcript = <<>> THEN <<>> ELSE Front(transcript)

\* The message is taken back, whatever is last on the screen by now; the composer stays
\* empty (the mutant goes on without the picture).
GoOnWithout(s) ==
    /\ sending' = [sending EXCEPT ![s].attachments = RemoveAt(@, Len(sending[s].parts) + 1)]
    /\ UNCHANGED <<transcript, busy>>
TakeBack(s) == GiveUp(s)
UploadAttachmentFails(s) ==
    /\ Preparing(s) /\ NextAttachment(s).file = NoFile /\ ~NextAttachment(s).data
    /\ Uploaded(s) /\ TakeBack(s)
    /\ UNCHANGED <<composer, reading, misnumbered, reachable, savedRows>>

\* The last message on the screen is told the files of its pictures; then the message is
\* sent, or it is too large for the socket, or the socket has to be opened first.
WithFiles(messages, attachments) ==
    LET i == Len(messages) IN
    IF messages = <<>> \/ messages[i].role # "user" THEN messages
    ELSE [messages EXCEPT ![i].pics = [j \in DOMAIN @ |->
             IF j \in DOMAIN attachments /\ attachments[j].file # NoFile
             THEN [@[j] EXCEPT !.file = attachments[j].file] ELSE @[j]]]
Prepared(s) == sending[s].at = "preparing" /\ Len(sending[s].parts) = Len(sending[s].attachments)
PartsReady(s) ==
    /\ Prepared(s) /\ transcript' = WithFiles(transcript, sending[s].attachments)
    /\ misnumbered' = (misnumbered \/ \E i \in DOMAIN transcript :
           i = Len(transcript) /\ transcript[i].role = "user" /\ transcript[i].send # s)
    /\ sending' = SetAt(s, IF reachable THEN "sent" ELSE "connecting")
    /\ UNCHANGED <<composer, reading, busy, reachable, files, savedRows>>
PartsTooLarge(s) ==
    /\ Prepared(s) /\ \E i \in DOMAIN sending[s].parts : sending[s].parts[i].file = NoFile
    /\ GiveUp(s) /\ composer' = sending[s].attachments
    /\ UNCHANGED <<reading, misnumbered, reachable, files, savedRows>>
SocketConnected(s) ==
    /\ sending[s].at = "connecting" /\ reachable /\ sending' = SetAt(s, "sent")
    /\ UNCHANGED <<composer, reading, transcript, busy, misnumbered, reachable, files, savedRows>>
SocketUnavailable(s) ==
    /\ sending[s].at = "connecting" /\ ~reachable /\ GiveUp(s)
    /\ composer' = IF sending[s].restore THEN sending[s].attachments ELSE composer
    /\ UNCHANGED <<reading, misnumbered, reachable, files, savedRows>>
ConnectivityChanges ==
    /\ reachable' = ~reachable
    /\ UNCHANGED <<composer, reading, transcript, sending, busy, misnumbered, files, savedRows>>
-----------------------------------------------------------------------------
(* The gateway *)

\* validateImageParts (a reference has no bytes to be counted) and admitImageRequest: the
\* browser shows an error.  A row that is replaced is still there.
RowOf(send) == {i \in DOMAIN savedRows : savedRows[i].send = send /\ savedRows[i].role = "user"}
AnchorRow(s) == UNION {RowOf(sending[s].replaces[i]) : i \in DOMAIN sending[s].replaces}
GatewayRefuses(s) ==
    /\ sending[s].at = "sent" /\ sending' = SetAt(s, "over")
    /\ busy' = IF busy = s THEN 0 ELSE busy
    /\ transcript' = IF busy = s THEN Append(transcript, AnswerTo(s)) ELSE transcript
    /\ UNCHANGED <<composer, reading, misnumbered, reachable, files, savedRows>>

\* buildUserMessageAttachmentPayload: the references, or, if there are none, the data.
StoredPics(parts) == IF References(parts) = <<>> THEN parts ELSE References(parts)

\* The bytes a part brings, or those of the file its reference is resolved to.
ShownPicture(p) == IF p.file = NoFile THEN p.pic ELSE files[p.file]

\* toOpenAiContent, toAnthropicContent, toGeminiParts.
ContentFor(parts) == [i \in DOMAIN parts |-> ShownPicture(parts[i])]

\* The turn: the question replaces what it edits and is stored, the model is shown its
\* pictures and answers.  Frames of a stopped message are ignored.
TakeQuestion(s) ==
    /\ sending[s].at = "sent" /\ Len(sending[s].parts) <= MaxCount
    /\ LET before == IF AnchorRow(s) = {} THEN savedRows
                     ELSE SubSeq(savedRows, 1, (CHOOSE i \in AnchorRow(s) : TRUE) - 1)
       IN savedRows' = before \o <<UserMessage(s, StoredPics(sending[s].parts)), AnswerTo(s)>>
    /\ sending' = [sending EXCEPT ![s].at = "over", ![s].seen = ContentFor(sending[s].parts)]
    /\ busy' = IF busy = s THEN 0 ELSE busy
    /\ transcript' = IF busy = s THEN Append(transcript, AnswerTo(s)) ELSE transcript
    /\ UNCHANGED <<composer, reading, misnumbered, reachable, files>>
-----------------------------------------------------------------------------
(* The shopper stops, reloads, edits and sends again *)

StopSending ==
    /\ busy # 0 /\ busy' = 0 /\ transcript' = Append(transcript, AnswerTo(busy))
    /\ UNCHANGED <<composer, reading, sending, misnumbered, reachable, files, savedRows>>

\* Not while a message is on its way (ChatWidget has that).
ReloadTranscript ==
    /\ \A s \in Sends : sending[s].at \in {"no", "over"}
    /\ reading.for # "resend" /\ transcript # savedRows /\ transcript' = savedRows
    /\ UNCHANGED <<composer, reading, sending, busy, misnumbered, reachable, files, savedRows>>

\* submitEditedMessage, retryFromMessage: the pictures of a message on the screen.
ReusePictures(i) ==
    /\ busy = 0 /\ reading = NotReading /\ transcript[i].role = "user"
    /\ reading' = [for |-> "resend", at |-> i, send |-> transcript[i].send,
                   pics |-> transcript[i].pics]
    /\ UNCHANGED <<composer, transcript, sending, busy, misnumbered, reachable, files, savedRows>>

\* prepareAttachmentForResend: an uploaded picture is referred to again, of another the
\* data is read from its preview, which may be gone.
PicturesReused(s) ==
    /\ reading.for = "resend" /\ reading' = NotReading
    /\ SendPayload(s,
           [j \in DOMAIN reading.pics |->
               [pic |-> reading.pics[j].pic, file |-> reading.pics[j].file,
                data |-> reading.pics[j].file = NoFile]],
           Slice(transcript, reading.at - 1), FALSE,
           IF RowOf(reading.send) = {} THEN <<>> ELSE <<reading.send>>)
    /\ UNCHANGED <<composer, misnumbered, reachable, files, savedRows>>
PicturesUnavailable ==
    /\ reading.for = "resend" /\ reading' = NotReading
    /\ \E j \in DOMAIN reading.pics : reading.pics[j].file = NoFile
    /\ UNCHANGED <<composer, transcript, sending, busy, misnumbered, reachable, files, savedRows>>

ImagesNext ==
    \/ StopSending \/ ReloadTranscript \/ PicturesUnavailable \/ ConnectivityChanges
    \/ \E p, q \in Pictures : SelectImages(<<p, q>>)
    \/ \E readable \in SUBSET Pictures : ImagesRead(readable)
    \/ \E i \in DOMAIN composer : RemoveImageAttachment(i)
    \/ \E i \in DOMAIN transcript : ReusePictures(i)
    \/ \E s \in Sends : \/ SendComposed(s) \/ PrepareReference(s) \/ UploadAttachment(s)
                        \/ SendInline(s) \/ UploadAttachmentFails(s) \/ PartsReady(s)
                        \/ PartsTooLarge(s) \/ SocketConnected(s) \/ SocketUnavailable(s)
                        \/ GatewayRefuses(s) \/ TakeQuestion(s) \/ PicturesReused(s)

ImagesSpec == ImagesInit /\ [][ImagesNext]_imageVars
-----------------------------------------------------------------------------
\* What the model saw of a stored message is what the shopper sees in it, each picture
\* under the number of its own file, and, unless it mixes references with data, all of it
\* is stored; through uploads that fail or whose answer is lost, messages that were taken
\* back, edits, regenerations and reloads.  Until a message that was stopped while it was
\* being prepared leaves the numbers of its files to another, the last on the screen then.
OwnFiles(pics) == \A i \in DOMAIN pics : pics[i].file # NoFile => files[pics[i].file] = pics[i].pic
SamePictures(row, s) ==
    /\ PicsOf(row.pics) = PicsOf(StoredPics(sending[s].parts))
    /\ sending[s].seen = PicsOf(sending[s].attachments)
PicturesStayTogether ==
    ~misnumbered =>
    /\ \A i \in DOMAIN savedRows :
           /\ OwnFiles(savedRows[i].pics)
           /\ savedRows[i].role = "user" /\ savedRows[i].send # Older
                  => SamePictures(savedRows[i], savedRows[i].send)
    /\ \A i \in DOMAIN transcript :
           /\ OwnFiles(transcript[i].pics)
           /\ transcript[i].role = "user" /\ RowOf(transcript[i].send) # {}
                  => LET sent == sending[transcript[i].send]
                     IN transcript[i].send = Older \/ PicsOf(transcript[i].pics)
                            \in {sent.seen, PicsOf(StoredPics(sent.parts))}
=============================================================================
