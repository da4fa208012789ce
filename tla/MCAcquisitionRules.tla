------------------------- MODULE MCAcquisitionRules -------------------------
(* Names with the characters that the scan and the file names stumble over:  *)
(* "AC/DC", a dash, brackets, nothing but a slash, and a title that is cut.  *)
EXTENDS AcquisitionRules

SomeArtists == {<<"a">>, <<"a", " ", "b">>, <<"a", "/", "b">>, <<"a", " ", "-", " ", "b">>, <<"/">>}

SomeTitles == {<<"b">>, <<"a", " ", "(", "b", ")">>, <<"a", " ", "b", " ", "a", " ", "b">>, <<"/">>}
=============================================================================
