------------------------------ MODULE ReaderSet ------------------------------
(* The readers (api/models/reader_model.js), whom several modules are about *)
(* and who are one set where those modules are checked together.            *)
CONSTANT Readers
=============================================================================
