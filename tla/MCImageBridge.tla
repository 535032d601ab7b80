--------------------------- MODULE MCImageBridge ---------------------------
(* The image bridge with the events a Responses stream is made of.         *)
EXTENDS ImageBridge

CONSTANTS i1, i2, u, v

Plain == [type |-> "other", item |-> None, partial |-> None, output |-> <<>>,
          image_gen |-> Missing, usage |-> Null]

ItemDone(image) == [Plain EXCEPT !.item = image]
PartialImage == [Plain EXCEPT !.type = "partial", !.partial = i1]
InProgress == [Plain EXCEPT !.usage = u]
InProgressNull == [Plain EXCEPT !.image_gen = Null]
CompletedEmpty == [Plain EXCEPT !.type = "completed"]
CompletedAll ==
    [Plain EXCEPT !.type = "completed", !.output = <<i2, i1>>, !.image_gen = v, !.usage = u]

MCEvents ==
    {ItemDone(i1), ItemDone(i2), PartialImage, InProgress, InProgressNull, CompletedEmpty,
     CompletedAll}

MCSplit == {CompletedAll}
=============================================================================
