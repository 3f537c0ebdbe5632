---------------------------- MODULE MCConfigPath -----------------------------
(* ConfigPath with two pages of four sectors and bounded requests.         *)
EXTENDS ConfigPath

MCMaxIo == [app |-> 2, driver |-> 1, tool |-> 1]

\* Segments within a page, across pages and of several pages.
Req(o, s, k, d) == [op |-> o, sector |-> s, segs |-> k, data |-> d]
MCRequests ==
    {Req("read", 2, <<1, 2>>, <<>>), Req("write", 3, <<2>>, <<"BMI160_0", "ADXL345">>),
     Req("write", 0, <<1>>, <<"zeros">>), Req("discard", 0, <<8>>, <<>>)}

\* The devices of RamDisk.cpp, and a table that just fits the DMA buffer.
MCTables == {[BMI160_0 |-> 12, BMI160_1 |-> 12, ADXL345 |-> 5],
             [BMI160_0 |-> 12, BMI160_1 |-> 12, ADXL345 |-> 30]}
=============================================================================
