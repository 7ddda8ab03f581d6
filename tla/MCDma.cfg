SPECIFICATION MCSpec
CONSTANTS
    NumDescriptors = 5
    Parts = {"allocator", "driver"}
    Buffers = {"buf"}
    Lengths = {3, 255}
INVARIANTS TypeOK FreeListExact LoadsAsAsked EndsWithItsOwn
PROPERTIES ImplementsPool CallsReturn
