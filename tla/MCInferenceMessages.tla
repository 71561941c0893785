------------------------- MODULE MCInferenceMessages -------------------------
EXTENDS InferenceMessages

NotUtf8 == <<255>>
AllTexts == {<<>>, <<97, 98>>, NotUtf8}
OnlyNotUtf8 == {NotUtf8}
AllNumbers == {0, 300}

Symmetry == Permutations(Objects)

N(tag, n) == [tag |-> tag, num |-> n]
T(tag, t) == [tag |-> tag, text |-> t]
Face(box) == [tag |-> 10, box |-> box, length |-> TotalBytes(box)]

Program(t, fields, foreign) == [type |-> t, fields |-> fields, foreign |-> foreign]

AllPrograms ==
  {Program("FrameRequest", {"width", "frame_id"},
           {<<N(8, 0), N(8, -1), T(42, <<>>)>>, <<N(72, 5)>>}),
   Program("FrameRequest", {"codec", "timestamp"},
           {<<T(50, <<97, 98>>), T(50, NotUtf8), N(32, 0)>>}),
   Program("FrameRequest", {"channels", "encoded_frame"},
           {<<T(58, NotUtf8), T(58, <<>>), N(24, 0)>>}),
   Program("DetectionResponse", {"faces", "confidence"},
           {<<Face(<<>>), Face(<<N(45, 0), N(45, 300)>>)>>}),
   Program("DetectionResponse", {"faces", "x"}, {<<Face(<<N(8, -1)>>)>>}),
   Program("DetectionResponse", {"processing_time_ms", "frame_id"},
           {<<T(26, <<>>), N(72, 5)>>}),
   Program("DetectionResponse", {"faces", "timestamp"},
           {<<Face(<<N(8, 300), N(72, 5)>>)>>})}
==============================================================================
