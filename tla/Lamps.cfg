SPECIFICATION FairSpec
INVARIANTS TypeOK LampsTellMode
PROPERTIES Invited
